---- MODULE Spec2Model ----
(***************************************************************************)
(* A model of the tldr newsletter article extraction engine                *)
(* (EmailProcessor: URL resolver, sponsor classifier, summary normalizer,  *)
(* HTML and text extraction passes, deduplicator, per-message              *)
(* orchestrator).  JavaScript strings are TLA+ strings (sequences of       *)
(* characters); JavaScript's 0-based indices are kept 1-based here.        *)
(***************************************************************************)
EXTENDS Integers, Sequences, FiniteSets, TLC

VARIABLES
  rin,         \* extractRealUrl: the href it is applied to, and how the href was built
  rout,        \* extractRealUrl: its outcome
  rpc,         \* position of the resolver run: "in", "done"
  articles,    \* deduplicateArticles: the list it is applied to
  unique,      \* deduplicateArticles: the list it returned
  kept,        \* deduplicateArticles: the input positions it retained
  rerun,       \* deduplicateArticles applied to its own output
  dpc,         \* position of the deduplication run: "in", "once", "twice"
  stext,       \* isSponsoredContent: the text it is applied to, and its pieces
  sverdict,    \* isSponsoredContent: its result
  spc,         \* position of the sponsor check: "in", "done"
  cin,         \* cleanSummary: the text it is applied to
  cout,        \* cleanSummary: the summary it returned
  cpc,         \* position of the summary run: "in", "done"
  email,       \* processEmail: the message (subject, anchors of the HTML body,
               \* text body, age in hours)
  dayHours,    \* processEmail: hours from the same local time yesterday to now
  candidates,  \* processEmail: the articles extractArticlesEnhanced returned
  extracted,   \* processEmail: whether extraction was run
  saved,       \* processEmail: the articles saved to the database
  cursor,      \* processEmail: position of the loop over the articles
  ppc,         \* position of processEmail: "in", "stale", "skipped", "saving", "done"
  xin,         \* extractArticlesEnhanced: the bodies it is applied to
  xout,        \* extractArticlesEnhanced: the articles of each pass and the result
  xpc,         \* position of the extraction run: "in", "done"
  fin,         \* message handler: the bodies and the anchors whose text cannot be read
  fout,        \* message handler: whether the message was given up, and its candidates
  fpc,         \* position of the message handler: "in", "done"
  msgs,        \* body handlers: the message of each handler
  arrays,      \* body handlers: the articles array of each call of extractArticlesEnhanced
  results,     \* body handlers: the articles the call of each handler returned
  hpc,         \* position of each body handler: "parsing", "awaiting", "extracted"
  tin,         \* similarity: the two titles it is applied to
  tout,        \* similarity: its result as the fraction <<numerator, denominator>>
  tpc,         \* position of the similarity run: "in", "done"
  rows,        \* articles table: its rows
  before,      \* articles table: its rows before the last call of createArticle
  submitted,   \* createArticle: the data of the calls so far
  created,     \* createArticle: what the last call returned or threw
  chatReq,     \* POST /api/chat: the message and the outcomes of the services
  chatRes,     \* POST /api/chat: the response
  chatPc,      \* position of the chat request: "in", "done"
  clock,       \* article lifetime: the day
  artTable,    \* article lifetime: the rows of the articles table
  osIndex,     \* article lifetime: the documents of the OpenSearch index
  purged,      \* article lifetime: the ids cleanupExpiredArticles deleted
  scrapeUrl,   \* scraper: the url of the call and what its checks give
  firstRetries, \* scraper: the retries the caller passed
  retriesLeft,  \* scraper: the retries of the innermost call
  fetches,     \* scraper: the number of axios.get calls made
  scrapeRes,   \* scraper: what the promise settled with
  scrapePc,    \* scraper: "call", "fetch" or "done"
  batchSize,   \* save loop: the number of articles of the message
  artIdx,      \* save loop: the position of the article in turn
  saveStep,    \* save loop: "scrape", "embed", "save", "index" or "done"
  articleContent, \* save loop: the content kept for the article in turn
  scrapeFailed, \* save loop: the articles whose scraping failed
  embedCalls,  \* save loop: the calls of generateArticleEmbeddings
  createCalls, \* save loop: the calls of db.createArticle
  dbRows,      \* save loop: the rows created
  indexedIds,  \* save loop: the articles indexed
  savedCount,  \* save loop: savedCount
  fetchCount,  \* processEmails: the number of messages the search found
  emitted,     \* processEmails: the messages whose body event has fired
  bodyHandler, \* processEmails: where the handler of each message is
  imapEnded,   \* processEmails: imap.end() was called
  resolved,    \* processEmails: resolve() was called
  pipeline,    \* embeddings: this.pipeline, "null" or "model"
  isLoading,   \* embeddings: this.isLoading
  initializationPromise, \* embeddings: the state of this.initializationPromise
  callerPc,    \* embeddings: where each call of generateEmbedding is
  activeLoads, \* embeddings: the loads of the model in progress
  loadStarts,  \* embeddings: the loads of the model started
  loadedAt,    \* embeddings: the load that succeeded, 0 when none
  nodeEnv,     \* scheduler: process.env.NODE_ENV, "" when not set
  processingRuns, \* scheduler: the daily processing task is started
  cleanupRuns, \* scheduler: the cleanup task is started
  schedulerCalls, \* scheduler: the calls made so far
  statusOut    \* scheduler: the answer of getStatus, when it was the last call

dedupVars == <<articles, unique, kept, rerun, dpc>>

resolveVars == <<rin, rout, rpc>>

sponsorVars == <<stext, sverdict, spc>>

summaryVars == <<cin, cout, cpc>>

emailVars == <<email, dayHours, candidates, extracted, saved, cursor, ppc>>

extractVars == <<xin, xout, xpc>>

\* the variables of the runs defined after the message runs
faultVars == <<fin, fout, fpc>>

handlerVars == <<msgs, arrays, results, hpc>>

similarityVars == <<tin, tout, tpc>>

storeVars == <<rows, before, submitted, created>>

chatVars == <<chatReq, chatRes, chatPc>>

lifetimeVars == <<clock, artTable, osIndex, purged>>

scrapeVars == <<scrapeUrl, firstRetries, retriesLeft, fetches, scrapeRes, scrapePc>>

loopVars == <<batchSize, artIdx, saveStep, articleContent, scrapeFailed, embedCalls, createCalls, dbRows, indexedIds, savedCount>>

mailboxVars == <<fetchCount, emitted, bodyHandler, imapEnded, resolved>>

embeddingVars == <<pipeline, isLoading, initializationPromise, callerPc, activeLoads, loadStarts, loadedAt>>

schedulerVars == <<nodeEnv, processingRuns, cleanupRuns, schedulerCalls, statusOut>>

laterVars == <<extractVars, faultVars, handlerVars, similarityVars, storeVars, chatVars, lifetimeVars, scrapeVars, loopVars, mailboxVars, embeddingVars, schedulerVars>>

(***************************************************************************)
(* String primitives (String.prototype).                                   *)
(***************************************************************************)
Ch(s, i) == IF i < 1 \/ i > Len(s) THEN "" ELSE SubSeq(s, i, i)

Max(a, b) == IF a >= b THEN a ELSE b

Min(a, b) == IF a <= b THEN a ELSE b

UpperChars == "ABCDEFGHIJKLMNOPQRSTUVWXYZ"

LowerChars == "abcdefghijklmnopqrstuvwxyz"

DigitChars == "0123456789"

UpperSet == {Ch(UpperChars, k) : k \in 1..26}

LowerSet == {Ch(LowerChars, k) : k \in 1..26}

DigitSet == {Ch(DigitChars, k) : k \in 1..10}

IsUpper(c) == c \in UpperSet

IsLower(c) == c \in LowerSet

IsDigit(c) == c \in DigitSet

\* \s of a JavaScript regular expression, within the model's alphabet
IsSpace(c) == c \in {" ", "\t", "\n", "\r", "\f"}

\* \w of a JavaScript regular expression
IsWord(c) == IsUpper(c) \/ IsLower(c) \/ IsDigit(c) \/ c = "_"

LowerOf == [c \in UpperSet |-> Ch(LowerChars, CHOOSE k \in 1..26 : Ch(UpperChars, k) = c)]

LowerCh(c) == IF c \in UpperSet THEN LowerOf[c] ELSE c

RECURSIVE LowerRange(_, _, _)
LowerRange(s, lo, hi) ==
  IF lo > hi THEN ""
  ELSE IF lo = hi THEN LowerCh(Ch(s, lo))
  ELSE LET mid == (lo + hi) \div 2
       IN LowerRange(s, lo, mid) \o LowerRange(s, mid + 1, hi)

\* s.toLowerCase()
ToLowerCase(s) == LowerRange(s, 1, Len(s))

\* whether sub occurs in s at (1-based) position i
MatchAt(s, sub, i) ==
  /\ i >= 1
  /\ i + Len(sub) - 1 <= Len(s)
  /\ SubSeq(s, i, i + Len(sub) - 1) = sub

\* s.includes(sub)
Includes(s, sub) == \E i \in 1..(Len(s) - Len(sub) + 1) : MatchAt(s, sub, i)

\* s.indexOf(sub, from) as a 1-based position, 0 when absent (JavaScript's -1)
IndexOfFrom(s, sub, from) ==
  LET hits == {i \in Max(from, 1)..(Len(s) - Len(sub) + 1) : MatchAt(s, sub, i)}
  IN IF hits = {} THEN 0 ELSE CHOOSE i \in hits : \A j \in hits : i <= j

IndexOf(s, sub) == IndexOfFrom(s, sub, 1)

\* s.substring(i) for a 1-based position i
From(s, i) == IF i > Len(s) THEN "" ELSE SubSeq(s, Max(i, 1), Len(s))

\* the least and the greatest element of a non-empty set of integers
MinOf(S) == CHOOSE i \in S : \A j \in S : i <= j

MaxOf(S) == 0 - MinOf({0 - i : i \in S})

\* the text between the first and the last of the positions in keep
Between(s, keep) == IF keep = {} THEN "" ELSE SubSeq(s, MinOf(keep), MaxOf(keep))

\* s.trim()
Trim(s) == Between(s, {i \in 1..Len(s) : ~IsSpace(Ch(s, i))})

\* new Set(s.split(/\s+/)): the maximal runs of non-whitespace, and the empty
\* string when s is empty or begins or ends with whitespace
WordSet(s) ==
  LET n == Len(s)
      starts == {i \in 1..n : ~IsSpace(Ch(s, i)) /\ (i = 1 \/ IsSpace(Ch(s, i - 1)))}
      endOf(i) == CHOOSE j \in i..n :
                    /\ \A k \in i..j : ~IsSpace(Ch(s, k))
                    /\ (j = n \/ IsSpace(Ch(s, j + 1)))
  IN {SubSeq(s, i, endOf(i)) : i \in starts}
       \cup (IF n = 0 \/ IsSpace(Ch(s, 1)) \/ IsSpace(Ch(s, n)) THEN {""} ELSE {})

\* a value outside the modelled alphabet: evaluating it is an error, so no
\* check can rest on an input the model does not cover
Unmodelled == CHOOSE v \in {} : TRUE

\* the position of the first character of s at or after from that is in the
\* set cs, Len(s) + 1 when there is none
FirstOf(s, cs, from) ==
  LET hits == {i \in from..Len(s) : Ch(s, i) \in cs}
  IN IF hits = {} THEN Len(s) + 1 ELSE MinOf(hits)

\* the position of the first character of s at or after from that is not in
\* the set cs, Len(s) + 1 when there is none
FirstNotOf(s, cs, from) ==
  LET hits == {i \in from..Len(s) : Ch(s, i) \notin cs}
  IN IF hits = {} THEN Len(s) + 1 ELSE MinOf(hits)

\* s.split(c) for a set cs of one-character separators, as a sequence
RECURSIVE SplitChars(_, _)
SplitChars(s, cs) ==
  LET k == FirstOf(s, cs, 1)
  IN IF k > Len(s) THEN <<s>>
     ELSE <<SubSeq(s, 1, k - 1)>> \o SplitChars(From(s, k + 1), cs)

\* seq.join(sep)
RECURSIVE Join(_, _)
Join(seq, sep) ==
  IF Len(seq) = 0 THEN ""
  ELSE IF Len(seq) = 1 THEN seq[1]
  ELSE seq[1] \o sep \o Join(Tail(seq), sep)

(***************************************************************************)
(* Character codes.  The alphabet of the model is ASCII 32..126 without    *)
(* the grave accent, plus tab, line feed, form feed and carriage return.   *)
(***************************************************************************)
AsciiLow == " !\"#$%&'()*+,-./0123456789:;<=>?@ABCDEFGHIJKLMNOPQRSTUVWXYZ[\\]^_"

AsciiHigh == "abcdefghijklmnopqrstuvwxyz{|}~"

HexChars == "0123456789ABCDEF"

\* String.fromCharCode(code)
CharOf(code) ==
  IF code >= 32 /\ code <= 95 THEN Ch(AsciiLow, code - 31)
  ELSE IF code >= 97 /\ code <= 126 THEN Ch(AsciiHigh, code - 96)
  ELSE IF code = 9 THEN "\t"
  ELSE IF code = 10 THEN "\n"
  ELSE IF code = 12 THEN "\f"
  ELSE IF code = 13 THEN "\r"
  ELSE Unmodelled

Codes == {9, 10, 12, 13} \cup (32..95) \cup (97..126)

Alphabet == {CharOf(code) : code \in Codes}

CodeTable == [c \in Alphabet |-> CHOOSE code \in Codes : CharOf(code) = c]

\* c.charCodeAt(0)
CodeOf(c) == IF c \in Alphabet THEN CodeTable[c] ELSE Unmodelled

HexSet == {Ch(HexChars, k) : k \in 1..16} \cup {Ch(ToLowerCase(HexChars), k) : k \in 1..16}

HexTable ==
  [c \in HexSet |->
     (CHOOSE k \in 1..16 : Ch(HexChars, k) = c \/ Ch(ToLowerCase(HexChars), k) = c) - 1]

IsHex(c) == c \in HexSet

HexVal(c) == HexTable[c]

\* whether a %XX escape stands at position i of s
EscapeAt(s, i) ==
  /\ i >= 1
  /\ Ch(s, i) = "%"
  /\ i + 2 <= Len(s)
  /\ IsHex(Ch(s, i + 1))
  /\ IsHex(Ch(s, i + 2))

\* the byte of the %XX escape at position i of s
ByteAt(s, i) == 16 * HexVal(Ch(s, i + 1)) + HexVal(Ch(s, i + 2))

\* "%XX" for a character, upper-case hexadecimal
PercentEncode(c) ==
  "%" \o Ch(HexChars, (CodeOf(c) \div 16) + 1) \o Ch(HexChars, (CodeOf(c) % 16) + 1)

(***************************************************************************)
(* decodeURIComponent (ECMAScript Decode): the outcome is a return value   *)
(* or a thrown URIError.                                                   *)
(***************************************************************************)
Return(v) == [kind |-> "return", val |-> v]

Throw == [kind |-> "throw", val |-> ""]

\* the number of bytes of the UTF-8 sequence a lead byte b >= 128 opens,
\* 0 when b cannot open one
Utf8Length(b) ==
  IF b >= 194 /\ b <= 223 THEN 2
  ELSE IF b >= 224 /\ b <= 239 THEN 3
  ELSE IF b >= 240 /\ b <= 244 THEN 4
  ELSE 0

\* whether the escapes at position i of s are a well-formed UTF-8 sequence of
\* n bytes with lead byte b
Utf8WellFormed(s, i, b, n) ==
  /\ n > 0
  /\ i + 3 * n - 1 <= Len(s)
  /\ \A m \in 1..(n - 1) :
       /\ EscapeAt(s, i + 3 * m)
       /\ ByteAt(s, i + 3 * m) >= 128
       /\ ByteAt(s, i + 3 * m) <= 191
  /\ (b = 224 => ByteAt(s, i + 3) >= 160)
  /\ (b = 237 => ByteAt(s, i + 3) <= 159)
  /\ (b = 240 => ByteAt(s, i + 3) >= 144)
  /\ (b = 244 => ByteAt(s, i + 3) <= 143)

\* the decoding of s[lo..hi] when every "%" of s opens a well-formed escape:
\* an escape becomes its character, the two digits after a "%" go
RECURSIVE DecodeRange(_, _, _)
DecodeRange(s, lo, hi) ==
  IF lo > hi THEN ""
  ELSE IF lo = hi
    THEN (IF EscapeAt(s, lo) THEN CharOf(ByteAt(s, lo))
          ELSE IF EscapeAt(s, lo - 1) \/ EscapeAt(s, lo - 2) THEN ""
          ELSE Ch(s, lo))
  ELSE LET mid == (lo + hi) \div 2
       IN DecodeRange(s, lo, mid) \o DecodeRange(s, mid + 1, hi)

\* whether the escapes of bytes >= 128 that start at position i of s, one
\* directly after the other, are well-formed UTF-8 sequences
RECURSIVE Utf8RunOk(_, _)
Utf8RunOk(s, i) ==
  IF ~(EscapeAt(s, i) /\ ByteAt(s, i) >= 128) THEN TRUE
  ELSE LET b == ByteAt(s, i)
       IN /\ Utf8WellFormed(s, i, b, Utf8Length(b))
          /\ Utf8RunOk(s, i + 3 * Utf8Length(b))

\* the scan of the string throws at a "%" that opens no escape, and at an
\* escape of a byte >= 128 that opens no well-formed UTF-8 sequence
decodeURIComponent(s) ==
  LET percents == {i \in 1..Len(s) : Ch(s, i) = "%"}
      high == {i \in percents : EscapeAt(s, i) /\ ByteAt(s, i) >= 128}
      runStarts == {i \in high : (i - 3) \notin high}
  IN IF \E i \in percents : ~EscapeAt(s, i) THEN Throw
     ELSE IF \E i \in runStarts : ~Utf8RunOk(s, i) THEN Throw
     ELSE Return(DecodeRange(s, 1, Len(s)))

(***************************************************************************)
(* The URL class (WHATWG URL) for http and https inputs over the model's   *)
(* alphabet: new URL(input), url.searchParams.delete(name) and             *)
(* url.toString().  Credentials, IPv4/IPv6 literals, numeric last labels,  *)
(* "^" and non-ASCII characters are outside the alphabet (Unmodelled).     *)
(***************************************************************************)
\* C0 controls and space, stripped from both ends of the input
IsC0OrSpace(c) == c \in {" ", "\t", "\n", "\f", "\r"}

RECURSIVE DropTabNewline(_, _, _)
DropTabNewline(s, lo, hi) ==
  IF lo > hi THEN ""
  ELSE IF lo = hi THEN (IF Ch(s, lo) \in {"\t", "\n", "\r"} THEN "" ELSE Ch(s, lo))
  ELSE LET mid == (lo + hi) \div 2
       IN DropTabNewline(s, lo, mid) \o DropTabNewline(s, mid + 1, hi)

\* the parser's preprocessing of its input
UrlInput(s) ==
  LET keep == {i \in 1..Len(s) : ~IsC0OrSpace(Ch(s, i))}
  IN IF keep = {} THEN ""
     ELSE DropTabNewline(s, MinOf(keep), MaxOf(keep))

\* percent-decode (WHATWG): every well-formed %XX becomes its byte, any other
\* "%" stays
RECURSIVE PercentDecodeRange(_, _, _)
PercentDecodeRange(s, lo, hi) ==
  IF lo > hi THEN ""
  ELSE IF lo = hi
    THEN (IF EscapeAt(s, lo) THEN CharOf(ByteAt(s, lo))
          ELSE IF EscapeAt(s, lo - 1) \/ EscapeAt(s, lo - 2) THEN ""
          ELSE Ch(s, lo))
  ELSE LET mid == (lo + hi) \div 2
       IN PercentDecodeRange(s, lo, mid) \o PercentDecodeRange(s, mid + 1, hi)

PercentDecode(s) == PercentDecodeRange(s, 1, Len(s))

\* percent-encode the characters of s that are in the set cs
RECURSIVE EncodeSet(_, _, _, _)
EncodeSet(s, cs, lo, hi) ==
  IF lo > hi THEN ""
  ELSE IF lo = hi
    THEN (IF Ch(s, lo) \in cs THEN PercentEncode(Ch(s, lo)) ELSE Ch(s, lo))
  ELSE LET mid == (lo + hi) \div 2
       IN EncodeSet(s, cs, lo, mid) \o EncodeSet(s, cs, mid + 1, hi)

FragmentEncodeSet == {" ", "\f", "\"", "<", ">"}

QueryEncodeSet == {" ", "\f", "\"", "#", "<", ">", "'"}

PathEncodeSet == {" ", "\f", "\"", "#", "<", ">", "?", "{", "}"}

ForbiddenHostChars ==
  {" ", "\f", "#", "/", ":", "<", ">", "?", "@", "[", "\\", "]", "^", "|", "%"}

\* a decimal digit string as a number
RECURSIVE ParseInt(_, _)
ParseInt(s, acc) ==
  IF s = "" THEN acc
  ELSE IF acc > 65535 THEN acc
  ELSE ParseInt(Tail(s), 10 * acc + (CodeOf(Head(s)) - 48))

RECURSIVE IntToString(_)
IntToString(n) ==
  IF n < 10 THEN Ch(DigitChars, n + 1)
  ELSE IntToString(n \div 10) \o Ch(DigitChars, (n % 10) + 1)

IsSingleDot(seg) == ToLowerCase(seg) \in {".", "%2e"}

IsDoubleDot(seg) == ToLowerCase(seg) \in {"..", ".%2e", "%2e.", "%2e%2e"}

\* the path state over the segments segs[i..]: the list of path segments
RECURSIVE PathSegments(_, _, _)
PathSegments(segs, i, path) ==
  IF i > Len(segs) THEN path
  ELSE LET last == (i = Len(segs))
           popped == IF Len(path) = 0 THEN path ELSE SubSeq(path, 1, Len(path) - 1)
       IN IF IsDoubleDot(segs[i])
            THEN PathSegments(segs, i + 1, IF last THEN Append(popped, "") ELSE popped)
          ELSE IF IsSingleDot(segs[i])
            THEN PathSegments(segs, i + 1, IF last THEN Append(path, "") ELSE path)
          ELSE PathSegments(segs, i + 1,
                 Append(path, EncodeSet(segs[i], PathEncodeSet, 1, Len(segs[i]))))

\* the last label of a host, not counting one trailing dot
LastLabel(labels) ==
  IF labels[Len(labels)] = "" /\ Len(labels) > 1
    THEN labels[Len(labels) - 1] ELSE labels[Len(labels)]

\* the host parser on a percent-decoded, lower-cased host text: the host, or
\* "" on failure
CheckHost(decoded, lastLabel) ==
  IF decoded = "" THEN ""
  ELSE IF \E i \in 1..Len(decoded) : Ch(decoded, i) \in ForbiddenHostChars THEN ""
  ELSE IF lastLabel # "" /\ \A i \in 1..Len(lastLabel) : IsDigit(Ch(lastLabel, i))
    THEN Unmodelled
  ELSE decoded

HostOfDecoded(decoded) == CheckHost(decoded, LastLabel(SplitChars(decoded, {"."})))

\* the host parser on the host text of an http(s) URL
ParseHost(h) == HostOfDecoded(ToLowerCase(PercentDecode(h)))

\* the port of an http(s) URL from its digits: "" for none or the default
\* port, "bad" for an invalid one
PortOfNumber(scheme, portText, portNum) ==
  IF portText = "" THEN ""
  ELSE IF portNum > 65535 THEN "bad"
  ELSE IF portNum = (IF scheme = "https" THEN 443 ELSE 80) THEN ""
  ELSE IntToString(portNum)

ParsePort(scheme, portText) ==
  IF \E i \in 1..Len(portText) : ~IsDigit(Ch(portText, i)) THEN "bad"
  ELSE PortOfNumber(scheme, portText, ParseInt(portText, 0))

NoUrl == [ok |-> FALSE]

\* the record of a URL from its parsed host and port and the raw texts of its
\* path, query and fragment
UrlRecord(scheme, host, port, pathBody, hasQuery, queryText, hasFragment, fragmentText) ==
  IF host = "" \/ port = "bad" THEN NoUrl
  ELSE [ok |-> TRUE,
        scheme |-> scheme,
        host |-> host,
        port |-> port,
        path |-> PathSegments(SplitChars(pathBody, {"/", "\\"}), 1, <<>>),
        hasQuery |-> hasQuery,
        query |-> EncodeSet(queryText, QueryEncodeSet, 1, Len(queryText)),
        hasFragment |-> hasFragment,
        fragment |-> EncodeSet(fragmentText, FragmentEncodeSet, 1, Len(fragmentText))]

\* the path text without the slash that opens it
PathBody(pathText) ==
  IF pathText # "" /\ Head(pathText) \in {"/", "\\"} THEN Tail(pathText) ELSE pathText

\* the authority is host[:port]; pathEnd is where the path ends and queryEnd
\* where the query ends
ParseParts(s, scheme, authority, colon, authEnd, pathEnd, queryEnd) ==
  IF Includes(authority, "@") \/ Includes(authority, "[") THEN Unmodelled
  ELSE UrlRecord(scheme,
                 ParseHost(SubSeq(authority, 1, colon - 1)),
                 ParsePort(scheme, From(authority, colon + 1)),
                 PathBody(SubSeq(s, authEnd, pathEnd - 1)),
                 pathEnd < queryEnd,
                 SubSeq(s, pathEnd + 1, queryEnd - 1),
                 queryEnd <= Len(s),
                 From(s, queryEnd + 1))

ParseAfterPath(s, scheme, authority, authEnd, pathEnd) ==
  ParseParts(s, scheme, authority, FirstOf(authority, {":"}, 1), authEnd, pathEnd,
             IF pathEnd <= Len(s) /\ Ch(s, pathEnd) = "?"
               THEN FirstOf(s, {"#"}, pathEnd) ELSE pathEnd)

ParseAuthority(s, scheme, authStart, authEnd) ==
  ParseAfterPath(s, scheme, SubSeq(s, authStart, authEnd - 1), authEnd,
                 FirstOf(s, {"?", "#"}, authEnd))

\* special authority (ignore) slashes state: the authority starts after the
\* slashes and backslashes that follow the scheme
ParseAfterSlashes(s, scheme, authStart) ==
  ParseAuthority(s, scheme, authStart, FirstOf(s, {"/", "\\", "?", "#"}, authStart))

AuthorityStart(s, from) ==
  LET nonSlash == {i \in from..Len(s) : Ch(s, i) \notin {"/", "\\"}}
  IN IF nonSlash = {} THEN Len(s) + 1 ELSE MinOf(nonSlash)

ParseAfterScheme(s, scheme) ==
  ParseAfterSlashes(s, scheme, AuthorityStart(s, Len(scheme) + 2))

ParsePreprocessed(s) ==
  IF MatchAt(s, "https:", 1) THEN ParseAfterScheme(s, "https")
  ELSE IF MatchAt(s, "http:", 1) THEN ParseAfterScheme(s, "http")
  ELSE NoUrl

\* new URL(input): the parsed record, or NoUrl when the constructor throws
ParseUrl(input) == ParsePreprocessed(UrlInput(input))

RECURSIVE PlusToSpace(_, _, _)
PlusToSpace(s, lo, hi) ==
  IF lo > hi THEN ""
  ELSE IF lo = hi THEN (IF Ch(s, lo) = "+" THEN " " ELSE Ch(s, lo))
  ELSE LET mid == (lo + hi) \div 2
       IN PlusToSpace(s, lo, mid) \o PlusToSpace(s, mid + 1, hi)

\* the application/x-www-form-urlencoded parser: the list of <<name, value>>
RECURSIVE FormParse(_, _)
FormParse(pieces, i) ==
  IF i > Len(pieces) THEN <<>>
  ELSE IF pieces[i] = "" THEN FormParse(pieces, i + 1)
  ELSE LET piece == pieces[i]
           eq == FirstOf(piece, {"="}, 1)
           name == PlusToSpace(piece, 1, eq - 1)
           value == PlusToSpace(piece, eq + 1, Len(piece))
       IN <<<<PercentDecode(name), PercentDecode(value)>>>>
            \o FormParse(pieces, i + 1)

\* the application/x-www-form-urlencoded byte serializer
RECURSIVE FormEncode(_, _, _)
FormEncode(s, lo, hi) ==
  IF lo > hi THEN ""
  ELSE IF lo = hi
    THEN LET c == Ch(s, lo)
         IN IF c = " " THEN "+"
            ELSE IF IsUpper(c) \/ IsLower(c) \/ IsDigit(c) \/ c \in {"*", "-", ".", "_"}
              THEN c
            ELSE PercentEncode(c)
  ELSE LET mid == (lo + hi) \div 2
       IN FormEncode(s, lo, mid) \o FormEncode(s, mid + 1, hi)

RECURSIVE FormSerialize(_, _)
FormSerialize(list, i) ==
  IF i > Len(list) THEN ""
  ELSE FormEncode(list[i][1], 1, Len(list[i][1])) \o "="
         \o FormEncode(list[i][2], 1, Len(list[i][2]))
         \o (IF i < Len(list) THEN "&" ELSE "")
         \o FormSerialize(list, i + 1)

RECURSIVE WithoutNames(_, _)
WithoutNames(list, names) ==
  IF Len(list) = 0 THEN <<>>
  ELSE IF list[1][1] \in names THEN WithoutNames(Tail(list), names)
  ELSE <<list[1]>> \o WithoutNames(Tail(list), names)

\* url.searchParams.delete(name) for every name in names: the pairs of those
\* names go, and the URL's query becomes the serialization of the rest
DeleteParams(url, names) ==
  LET list == WithoutNames(FormParse(SplitChars(url.query, {"&"}), 1), names)
      serialized == FormSerialize(list, 1)
  IN [url EXCEPT !.hasQuery = (serialized # ""), !.query = serialized]

\* url.toString()
UrlToString(url) ==
  url.scheme \o "://" \o url.host
    \o (IF url.port = "" THEN "" ELSE ":" \o url.port)
    \o "/" \o Join(url.path, "/")
    \o (IF url.hasQuery THEN "?" \o url.query ELSE "")
    \o (IF url.hasFragment THEN "#" \o url.fragment ELSE "")

(***************************************************************************)
(* URL Resolver: extractRealUrl.                                           *)
(***************************************************************************)
TRACKING_URL_PREFIX == "https://tracking.tldrnewsletter.com"

SKIP_DOMAINS ==
  {"tldrnewsletter.com", "tldr.tech", "advertise.tldr.tech", "unsubscribe",
   "manage", "tracking.tldrnewsletter.com", "linkedin.com"}

trackingParams ==
  {"utm_source", "utm_medium", "utm_campaign", "utm_content", "utm_term",
   "utm_id", "gclid", "fbclid", "mc_eid", "mc_cid", "_hsenc", "_hsmi"}

\* SKIP_DOMAINS.some(domain => url.toLowerCase().includes(domain.toLowerCase()))
InSkipDomains(url) ==
  LET lower == ToLowerCase(url)
  IN \E domain \in SKIP_DOMAINS : Includes(lower, ToLowerCase(domain))

\* whether http:// or https:// stands at position i of s
HttpAt(s, i) == MatchAt(s, "http://", i) \/ MatchAt(s, "https://", i)

HttpLen(s, i) == IF MatchAt(s, "https://", i) THEN 8 ELSE 7

\* the match of /https?:\/\/[^...]+/ at position i of s, where stop is the set
\* of characters the class excludes; "" when there is no match at i
HttpRunAt(s, i, stop) ==
  LET from == i + HttpLen(s, i)
      end == FirstOf(s, stop, from)
  IN IF HttpAt(s, i) /\ end > from THEN SubSeq(s, i, end - 1) ELSE ""

WhiteSpace == {" ", "\t", "\n", "\f", "\r"}

\* decodedUrl.match(/^(https?:\/\/[^\s]+)/)
DirectMatch(decodedUrl) == HttpRunAt(decodedUrl, 1, WhiteSpace)

\* decodedUrl.match(/(https?:\/\/[^\s\?"']+)/)
UrlMatch(decodedUrl) ==
  LET stop == WhiteSpace \cup {"?", "\"", "'"}
      hits == {i \in 1..Len(decodedUrl) : HttpRunAt(decodedUrl, i, stop) # ""}
  IN IF hits = {} THEN "" ELSE HttpRunAt(decodedUrl, MinOf(hits), stop)

\* s.replace(/\/$/, '')
StripTrailingSlash(s) ==
  IF s # "" /\ Ch(s, Len(s)) = "/" THEN SubSeq(s, 1, Len(s) - 1) ELSE s

\* toString() of a parsed URL with the trailing slash removed; Throw when
\* the URL constructor threw
CleanedText(url) ==
  IF ~url.ok THEN Throw ELSE Return(StripTrailingSlash(UrlToString(url)))

\* the searchParams.delete calls on a parsed URL
DeleteTracking(url) == IF ~url.ok THEN url ELSE DeleteParams(url, trackingParams)

\* the cleaning with the searchParams.delete calls left out
CleanKeepingParams(u) == CleanedText(ParseUrl(u))

\* new URL(u), the tracking parameters deleted, toString(), the trailing
\* slash removed; Throw when the URL constructor throws
CleanTrackingParams(u) == CleanedText(DeleteTracking(ParseUrl(u)))

\* the end of a block was reached without a return
Fall == [kind |-> "fall", val |-> ""]

\* the SKIP_DOMAINS check on the URL of the tracking block
CheckRealUrl(realUrl) ==
  IF ~InSkipDomains(realUrl) THEN Return(realUrl) ELSE Fall

\* the inner try of the tracking block: if URL parsing fails, use the raw URL
UseCleaned(found, cleaned) ==
  CheckRealUrl(IF cleaned.kind = "throw" THEN found ELSE cleaned.val)

CleanFound(found) ==
  IF found = "" THEN Fall ELSE UseCleaned(found, CleanTrackingParams(found))

PreferDirect(direct, decodedUrl) ==
  CleanFound(IF direct # "" THEN direct ELSE UrlMatch(decodedUrl))

FindUrl(decodedUrl) == PreferDirect(DirectMatch(decodedUrl), decodedUrl)

\* the second decodeURIComponent and what follows it
DecodeAgain(once) ==
  IF once.kind = "throw" THEN Throw ELSE FindUrl(once.val)

\* the first decodeURIComponent and what follows it
DecodeOnce(once) ==
  IF once.kind = "throw" THEN Throw ELSE DecodeAgain(decodeURIComponent(once.val))

\* parts[1] of trackingUrl.split('/CL0/'), given where the first separator is
SecondPart(rest, next) == IF next = 0 THEN rest ELSE SubSeq(rest, 1, next - 1)

AfterSeparator(rest) ==
  DecodeOnce(decodeURIComponent(
    SplitChars(SecondPart(rest, IndexOf(rest, "/CL0/")), {"/"})[1]))

SplitAtSeparator(trackingUrl, sep) ==
  IF sep = 0 THEN Fall ELSE AfterSeparator(From(trackingUrl, sep + 5))

\* the body of the try block for a tracking URL
TrackingBlock(trackingUrl) ==
  SplitAtSeparator(trackingUrl, IndexOf(trackingUrl, "/CL0/"))

\* the catch of the direct block
DirectCleaned(trackingUrl, cleaned) ==
  IF cleaned.kind = "throw"
    THEN Return(StripTrailingSlash(SplitChars(trackingUrl, {"?"})[1]))
    ELSE cleaned

\* the direct URL block
DirectBlock(trackingUrl) ==
  IF HttpAt(trackingUrl, 1) /\ ~InSkipDomains(trackingUrl)
    THEN DirectCleaned(trackingUrl, CleanTrackingParams(trackingUrl))
    ELSE Return("")

\* the direct block runs unless the tracking block returned
AfterTracking(trackingUrl, tracked) ==
  IF tracked.kind = "return" THEN tracked ELSE DirectBlock(trackingUrl)

\* without the catch, an exception of the tracking block leaves the function
AfterTrackingUncaught(trackingUrl, tracked) ==
  IF tracked.kind \in {"return", "throw"} THEN tracked ELSE DirectBlock(trackingUrl)

\* the tracking block without its try/catch
TryTrackingUncaught(trackingUrl) ==
  IF Includes(trackingUrl, TRACKING_URL_PREFIX)
    THEN AfterTrackingUncaught(trackingUrl, TrackingBlock(trackingUrl))
    ELSE DirectBlock(trackingUrl)

\* the try/catch around the tracking block
TryTracking(trackingUrl) ==
  IF Includes(trackingUrl, TRACKING_URL_PREFIX)
    THEN AfterTracking(trackingUrl, TrackingBlock(trackingUrl))
    ELSE DirectBlock(trackingUrl)

\* extractRealUrl: Return(url), with url = "" for "no URL", or Throw
extractRealUrl(trackingUrl) ==
  IF trackingUrl = "" THEN Return("") ELSE TryTracking(trackingUrl)

(***************************************************************************)
(* Summary normalizer.                                                     *)
(***************************************************************************)
\* summary.length > 500 ? summary.substring(0, 497) + '...'
SummaryCap == 500

CapKeep == 497

\* cleaned.length > 300, truncated.lastIndexOf(' ') > 200
FallbackLen == 300

FallbackWordMin == 200

\* text.length < 20, s.length > 20
MinSentenceLen == 20

\* sentences.slice(0, Math.min(3, sentences.length))
MaxSentences == 3

\* the characters of s at the positions lo..hi that are not in removed
RECURSIVE KeepRange(_, _, _, _)
KeepRange(s, removed, lo, hi) ==
  IF lo > hi THEN ""
  ELSE IF lo = hi THEN (IF lo \in removed THEN "" ELSE Ch(s, lo))
  ELSE KeepRange(s, removed, lo, (lo + hi) \div 2)
         \o KeepRange(s, removed, (lo + hi) \div 2 + 1, hi)

\* s.replace(pattern, '').trim(), where removed holds the positions of the
\* matches of the pattern
Without(s, removed) ==
  IF s = "" THEN ""
  ELSE IF removed = {} THEN Trim(s)
  ELSE Trim(KeepRange(s, removed, 1, Len(s)))

\* text.replace(/\s+/g, ' '): of each run of whitespace, the first character
\* becomes a space and the others go
RECURSIVE CollapseRange(_, _, _)
CollapseRange(s, lo, hi) ==
  IF lo > hi THEN ""
  ELSE IF lo = hi
    THEN (IF ~IsSpace(Ch(s, lo)) THEN Ch(s, lo)
          ELSE IF lo > 1 /\ IsSpace(Ch(s, lo - 1)) THEN "" ELSE " ")
  ELSE CollapseRange(s, lo, (lo + hi) \div 2)
         \o CollapseRange(s, (lo + hi) \div 2 + 1, hi)

CollapseSpaces(s) == CollapseRange(s, 1, Len(s))

\* the positions where lit stands in lower
Occurrences(lower, lit) ==
  {j \in 1..(Len(lower) - Len(lit) + 1) : MatchAt(lower, lit, j)}

\* where a greedy [\s\w]* that starts at position i ends
SkipSpaceWord(s, i) ==
  LET stop == {j \in i..Len(s) : ~(IsSpace(Ch(s, j)) \/ IsWord(Ch(s, j)))}
  IN IF stop = {} THEN Len(s) + 1 ELSE MinOf(stop)

\* the matches of a pattern /lit/gi whose text lit is in lower case
LiteralMatches(s, lit) ==
  UNION {j..(j + Len(lit) - 1) : j \in Occurrences(ToLowerCase(s), lit)}

\* the matches of a pattern /lit[\s\w]*/gi
LiteralRunMatches(s, lit) ==
  UNION {j..(SkipSpaceWord(s, j + Len(lit)) - 1) : j \in Occurrences(ToLowerCase(s), lit)}

\* the match of /TLDR[\s\w]*newsletter/i that starts at position j, where
\* ends holds the positions at which "newsletter" stands inside the run of
\* [\s\w] that follows the "tldr"
TldrMatchAt(j, ends) == IF ends = {} THEN {} ELSE j..(MaxOf(ends) + 9)

NewsletterIn(lower, from, runEnd) ==
  {k \in from..(runEnd - 10) : MatchAt(lower, "newsletter", k)}

\* the matches of /TLDR[\s\w]*newsletter/gi
TldrNewsletterIn(s, lower) ==
  UNION {TldrMatchAt(j, NewsletterIn(lower, j + 4, SkipSpaceWord(s, j + 4)))
           : j \in Occurrences(lower, "tldr")}

TldrNewsletterMatches(s) == TldrNewsletterIn(s, ToLowerCase(s))

\* the match of /open.*close/gi: from the first open to the last close after it
SpanFrom(first, closes, closeLen) ==
  IF closes = {} THEN {} ELSE first..(MaxOf(closes) + closeLen - 1)

SpanIn(lower, open, close, opens) ==
  IF opens = {} THEN {}
  ELSE SpanFrom(MinOf(opens),
                {k \in Occurrences(lower, close) : k >= MinOf(opens) + Len(open)},
                Len(close))

SpanMatches(s, open, close) ==
  SpanIn(ToLowerCase(s), open, close, Occurrences(ToLowerCase(s), open))

UpperHexSet == {Ch("0123456789ABCDEF", k) : k \in 1..16}

SkipUpperHex(s, i) ==
  CHOOSE j \in i..(Len(s) + 1) :
    /\ j = Len(s) + 1 \/ Ch(s, j) \notin UpperHexSet
    /\ \A m \in i..(j - 1) : Ch(s, m) \in UpperHexSet

\* the match of /=[0-9A-F]{3,}(\s|$)/ at the "=" of position j, where hexEnd
\* is where the run of hexadecimal digits after it ends
TrackingCodeAt(s, j, hexEnd) ==
  IF hexEnd - (j + 1) >= 3 /\ (hexEnd > Len(s) \/ IsSpace(Ch(s, hexEnd)))
    THEN j..Min(hexEnd, Len(s)) ELSE {}

\* the matches of /=[0-9A-F]{3,}(\s|$)/g
TrackingCodeMatches(s) ==
  UNION {TrackingCodeAt(s, j, SkipUpperHex(s, j + 1)) : j \in Occurrences(s, "=")}

\* the match of /^\.+/
LeadingDots(s) == 1..(FirstNotOf(s, {"."}, 1) - 1)

\* the matches of /\.{2,}/g
DotRuns(s) ==
  {i \in 1..Len(s) : /\ Ch(s, i) = "."
                     /\ \/ (i > 1 /\ Ch(s, i - 1) = ".")
                        \/ (i < Len(s) /\ Ch(s, i + 1) = ".")}

\* the match of the string pattern '.': its first occurrence
FirstDot(s) == IF IndexOf(s, ".") = 0 THEN {} ELSE {IndexOf(s, ".")}

\* the sixteen patterns of promoPatterns, each replaced by '' and trimmed, in
\* the order of the array
StripSponsor(s) == Without(s, LiteralMatches(s, "(sponsor)"))

StripTldrNewsletter(s) == Without(s, TldrNewsletterMatches(s))

StripSignUp(s) == Without(s, LiteralRunMatches(s, "sign up for"))

StripSubscribe(s) == Without(s, LiteralRunMatches(s, "subscribe to"))

StripGetThis(s) == Without(s, LiteralMatches(s, "get this newsletter"))

StripAdvertise(s) == Without(s, LiteralMatches(s, "advertise with us"))

StripTogether(s) == Without(s, LiteralRunMatches(s, "together with"))

StripSponsoredBy(s) == Without(s, LiteralRunMatches(s, "sponsored by"))

StripCheckOut(s) == Without(s, LiteralMatches(s, "check out tldr"))

StripJoin(s) == Without(s, SpanMatches(s, "join", "tldr"))

StripReaders(s) == Without(s, LiteralMatches(s, "tldr readers"))

StripExclusive(s) == Without(s, SpanMatches(s, "exclusive", "tldr"))

StripTrackingCodes(s) == Without(s, TrackingCodeMatches(s))

StripLeadingDots(s) == Without(s, LeadingDots(s))

StripDotRuns(s) == Without(s, DotRuns(s))

StripFirstDot(s) == Without(s, FirstDot(s))

StripPromo(s) ==
  StripFirstDot(StripDotRuns(StripLeadingDots(StripTrackingCodes(
    StripExclusive(StripReaders(StripJoin(StripCheckOut(
      StripSponsoredBy(StripTogether(StripAdvertise(StripGetThis(
        StripSubscribe(StripSignUp(StripTldrNewsletter(StripSponsor(s))))))))))))))))

Terminators == {".", "!", "?"}

\* text.match(/[^.!?]+[.!?]+/g) from position pos on: nt is where the next
\* run of other characters starts and te where its terminators start
RECURSIVE RawSentencesFrom(_, _)
RawSentence(s, nt, te) ==
  IF nt > Len(s) \/ te > Len(s) THEN <<>>
  ELSE <<SubSeq(s, nt, FirstNotOf(s, Terminators, te) - 1)>>
         \o RawSentencesFrom(s, FirstNotOf(s, Terminators, te))

RawSentenceAt(s, nt) == RawSentence(s, nt, FirstOf(s, Terminators, nt))

RawSentencesFrom(s, pos) == RawSentenceAt(s, FirstNotOf(s, Terminators, pos))

verbIndicators ==
  {" is ", " are ", " was ", " were ", " will ", " would ", " has ", " have ",
   " had ", " can ", " could ", " may ", " might ", " must ", " should ",
   " to ", " said ", " says ", "ing ", "ed "}

HasVerbIn(lower) == \E v \in verbIndicators : Includes(lower, v)

isCompleteSentence(text) ==
  /\ Len(text) >= MinSentenceLen
  /\ IsUpper(Ch(text, 1))
  /\ Ch(text, Len(text)) \in Terminators
  /\ HasVerbIn(ToLowerCase(text))

\* sentences[sentences.length - 1] += ' ' + currentSentence; on an empty
\* array this sets the property -1 and leaves the elements as they are
AppendToLast(sentences, currentSentence) ==
  IF currentSentence = "" \/ Len(sentences) = 0 THEN sentences
  ELSE [sentences EXCEPT ![Len(sentences)] = @ \o " " \o currentSentence]

Accumulate(currentSentence, trimmed) ==
  IF currentSentence = "" THEN trimmed ELSE currentSentence \o " " \o trimmed

\* the loop over rawSentences, and what follows it
RECURSIVE SentenceLoop(_, _, _, _)
SentenceStep(raw, i, sentences, currentSentence, trimmed) ==
  IF isCompleteSentence(trimmed)
    THEN SentenceLoop(raw, i + 1,
                      Append(AppendToLast(sentences, currentSentence), trimmed), "")
    ELSE SentenceLoop(raw, i + 1, sentences, Accumulate(currentSentence, trimmed))

SentenceLoop(raw, i, sentences, currentSentence) ==
  IF i > Len(raw) THEN AppendToLast(sentences, currentSentence)
  ELSE SentenceStep(raw, i, sentences, currentSentence, Trim(raw[i]))

extractCompleteSentences(text) ==
  SelectSeq(SentenceLoop(RawSentencesFrom(text, 1), 1, <<>>, ""),
            LAMBDA x : Len(x) > MinSentenceLen)

\* the summary as it is, whatever its length
NoCap(summary) == summary

\* summary.length > 500 ? summary.substring(0, 497) + '...' : summary
HardCap(summary) ==
  IF Len(summary) > SummaryCap THEN SubSeq(summary, 1, CapKeep) \o "..." ELSE summary

\* truncated.lastIndexOf(' ') as a 1-based position, 0 when absent
LastSpace(truncated) ==
  LET hits == {i \in 1..Len(truncated) : Ch(truncated, i) = " "}
  IN IF hits = {} THEN 0 ELSE MaxOf(hits)

CutAtWord(truncated, lastSpace) ==
  IF lastSpace - 1 > FallbackWordMin
    THEN SubSeq(truncated, 1, lastSpace - 1) \o "..." ELSE truncated \o "..."

\* the fallback when there is no complete sentence
FirstChars(cleaned) ==
  IF Len(cleaned) > FallbackLen
    THEN CutAtWord(SubSeq(cleaned, 1, FallbackLen),
                   LastSpace(SubSeq(cleaned, 1, FallbackLen)))
    ELSE cleaned

FirstSentences(sentences) ==
  Join(SubSeq(sentences, 1, Min(MaxSentences, Len(sentences))), " ")

SummaryOf(cleaned, sentences) ==
  IF Len(sentences) > 0 THEN HardCap(FirstSentences(sentences))
  ELSE FirstChars(cleaned)

SummaryOfCleaned(cleaned) == SummaryOf(cleaned, extractCompleteSentences(cleaned))

\* the text with its whitespace collapsed and the promotional patterns removed
CleanedOf(text) == StripPromo(Trim(CollapseSpaces(text)))

cleanSummary(text) == IF text = "" THEN "" ELSE SummaryOfCleaned(CleanedOf(text))

extractSummaryFromText(text) == cleanSummary(text)

(***************************************************************************)
(* Sponsor check and read-time marker.                                     *)
(***************************************************************************)
\* the first position of s from i on whose character is not in the class,
\* Len(s) + 1 when there is none: where a greedy c* that starts at i ends
SkipSpaces(s, i) ==
  CHOOSE j \in i..(Len(s) + 1) :
    /\ j = Len(s) + 1 \/ ~IsSpace(Ch(s, j))
    /\ \A m \in i..(j - 1) : IsSpace(Ch(s, m))

SkipDigits(s, i) ==
  CHOOSE j \in i..(Len(s) + 1) :
    /\ j = Len(s) + 1 \/ ~IsDigit(Ch(s, j))
    /\ \A m \in i..(j - 1) : IsDigit(Ch(s, m))

\* "minute", \s*, "read)" from position i of the lower-cased text
MinuteReadAt(lower, i) ==
  MatchAt(lower, "minute", i) /\ MatchAt(lower, "read)", SkipSpaces(lower, i + 6))

\* /\((\d+)\s*minute\s*read\)/i matches at position i: lower is the
\* lower-cased text and digitsEnd the end of the digits that follow the "("
ReadTimeEnds(lower, i, digitsEnd) ==
  /\ Ch(lower, i) = "("
  /\ digitsEnd > i + 1
  /\ MinuteReadAt(lower, SkipSpaces(lower, digitsEnd))

ReadTimeAt(lower, i) == ReadTimeEnds(lower, i, SkipDigits(lower, i + 1))

HasMinuteReadIn(lower) == \E i \in 1..Len(lower) : ReadTimeAt(lower, i)

\* /\(\d+\s*minute\s*read\)/i.test(text)
HasMinuteRead(text) == HasMinuteReadIn(ToLowerCase(text))

sponsorIndicators ==
  {"sponsor", "sponsored", "advertisement", "ad:", "promoted",
   "partner content", "paid content", "brought to you by"}

HasSponsorTagIn(lowerText) ==
  \E indicator \in sponsorIndicators : Includes(lowerText, indicator)

\* the sponsor check without the read-time exception
isSponsoredIgnoringReadTime(text) == HasSponsorTagIn(ToLowerCase(text))

\* isSponsoredContent
isSponsoredContent(text) ==
  HasSponsorTagIn(ToLowerCase(text)) /\ ~HasMinuteRead(text)

(***************************************************************************)
(* Deduplicator.                                                           *)
(***************************************************************************)
\* The similarity threshold 0.8 as the fraction ThresholdNum / ThresholdDen
ThresholdNum == 4

ThresholdDen == 5

\* a similarity whose last case is the Jaccard overlap of the word sets
similarityJaccard(str1, str2) ==
  LET s1 == ToLowerCase(str1)
      s2 == ToLowerCase(str2)
  IN IF s1 = s2 THEN <<1, 1>>
     ELSE IF Includes(s1, s2) \/ Includes(s2, s1) THEN <<9, 10>>
     ELSE <<Cardinality(WordSet(s1) \cap WordSet(s2)),
            Cardinality(WordSet(s1) \cup WordSet(s2))>>

\* similarity(str1, str2) as the exact fraction <<numerator, denominator>>
similarity(str1, str2) ==
  LET s1 == ToLowerCase(str1)
      s2 == ToLowerCase(str2)
  IN IF s1 = s2 THEN <<1, 1>>
     ELSE IF Includes(s1, s2) \/ Includes(s2, s1) THEN <<9, 10>>
     ELSE LET words1 == WordSet(s1)
              words2 == WordSet(s2)
          IN <<Cardinality(words1 \cap words2),
               Max(Cardinality(words1), Cardinality(words2))>>

\* a threshold of 0.9 in place of 0.8
SimilarAboveNine(a, b) ==
  LET f == similarity(a, b) IN f[1] * 10 > 9 * f[2]

\* similarity(a, b) > 0.8
Similar(a, b) ==
  LET f == similarity(a, b) IN f[1] * ThresholdDen > ThresholdNum * f[2]

\* article.url || article.title.toLowerCase()
DedupKey(article) ==
  IF article.url # "" THEN article.url ELSE ToLowerCase(article.title)

\* the loop of deduplicateArticles over as[i..]: the positions (in as) of the
\* articles pushed to unique so far, and the seen set
RECURSIVE DedupLoop(_, _, _, _)
DedupLoop(as, i, uniq, seen) ==
  IF i > Len(as) THEN uniq
  ELSE LET article == as[i]
           key == DedupKey(article)
       IN IF key \in seen THEN DedupLoop(as, i + 1, uniq, seen)
          ELSE IF \E k \in 1..Len(uniq) : Similar(as[uniq[k]].title, article.title)
               THEN DedupLoop(as, i + 1, uniq, seen \cup {key})
               ELSE DedupLoop(as, i + 1, Append(uniq, i), seen \cup {key})

\* a deduplicator in which the last of the candidates of one key, and of
\* the candidates with near-duplicate titles, is the one retained
RECURSIVE LatestLoop(_, _, _)
LatestLoop(as, i, uniq) ==
  IF i > Len(as) THEN uniq
  ELSE IF \E j \in (i + 1)..Len(as) :
            \/ DedupKey(as[j]) = DedupKey(as[i])
            \/ Similar(as[j].title, as[i].title)
         THEN LatestLoop(as, i + 1, uniq)
         ELSE LatestLoop(as, i + 1, Append(uniq, i))

LatestIndices(as) == LatestLoop(as, 1, <<>>)

\* the input positions of the articles deduplicateArticles returns, in order
DedupIndices(as) == DedupLoop(as, 1, <<>>, {})

\* a deduplicator that compares each article with the article just before it
\* in the input instead of with the accepted ones
RECURSIVE AdjacentLoop(_, _, _, _)
AdjacentLoop(as, i, uniq, seen) ==
  IF i > Len(as) THEN uniq
  ELSE LET article == as[i]
           key == DedupKey(article)
       IN IF key \in seen THEN AdjacentLoop(as, i + 1, uniq, seen)
          ELSE IF i > 1 /\ Similar(as[i - 1].title, article.title)
               THEN AdjacentLoop(as, i + 1, uniq, seen \cup {key})
               ELSE AdjacentLoop(as, i + 1, Append(uniq, article), seen \cup {key})

deduplicateAdjacent(as) == AdjacentLoop(as, 1, <<>>, {})

deduplicateArticles(as) ==
  LET idx == DedupIndices(as) IN [k \in 1..Len(idx) |-> as[idx[k]]]

(***************************************************************************)
(* Link and line classifiers.                                              *)
(***************************************************************************)
adminPatterns ==
  {"tldr.tech/signup", "tldr.tech/ai", "advertise.tldr.tech",
   "tldrnewsletter.com/web-version", "tldrnewsletter.com/unsubscribe",
   "manage", "feedback"}

isAdminLink(href) == \E pattern \in adminPatterns : Includes(href, pattern)

skipKeywords ==
  {"unsubscribe", "view online", "sign up", "advertise", "sponsor",
   "together with", "quick links", "view in browser", "manage", "feedback",
   "tldr.tech/signup"}

HasSkipKeyword(lowerTitle) == \E keyword \in skipKeywords : Includes(lowerTitle, keyword)

isArticleLink(href, title) ==
  /\ href # ""
  /\ title # ""
  /\ Len(title) >= 3
  /\ ~HasSkipKeyword(ToLowerCase(title))
  /\ ~\E domain \in SKIP_DOMAINS : Includes(href, domain)
  /\ (Includes(href, TRACKING_URL_PREFIX) \/ HttpAt(href, 1))

\* text from its first \w character on: title.replace(/^[^\w]+/, '')
FromFirstWord(title) ==
  LET hits == {i \in 1..Len(title) : IsWord(Ch(title, i))}
  IN IF hits = {} THEN "" ELSE From(title, MinOf(hits))

\* cleanTitle; the characters of its third pattern are outside the alphabet
cleanTitle(title) == Trim(CollapseSpaces(FromFirstWord(title)))

\* the digits of the first match of /\((\d+)\s*minute\s*read\)/i, given the
\* positions where it matches; "" stands for undefined
ReadTimeDigits(text, hits) ==
  IF hits = {} THEN ""
  ELSE SubSeq(text, MinOf(hits) + 1, SkipDigits(text, MinOf(hits) + 1) - 1)

MinutesText(digits) == IF digits = "" THEN "" ELSE digits \o " min"

ReadTimeHits(text, lower) == {i \in 1..Len(text) : ReadTimeAt(lower, i)}

\* extractReadTime
extractReadTime(text) ==
  MinutesText(ReadTimeDigits(text, ReadTimeHits(text, ToLowerCase(text))))

categories ==
  << [key |-> "ai",
      patterns |-> {"artificial intelligence", "machine learning", "llm", "gpt",
                    "ai model", "neural", "deepmind", "openai", "anthropic"}],
     [key |-> "big-tech",
      patterns |-> {"google", "apple", "microsoft", "amazon", "meta", "facebook",
                    "tesla", "nvidia"}],
     [key |-> "startups",
      patterns |-> {"startup", "funding", "venture", "founder", "series a",
                    "series b", "ipo", "acquisition"}],
     [key |-> "programming",
      patterns |-> {"programming", "coding", "javascript", "python", "github",
                    "api", "framework", "developer"}],
     [key |-> "science",
      patterns |-> {"research", "quantum", "physics", "biology", "chemistry",
                    "discovery", "experiment"}],
     [key |-> "security",
      patterns |-> {"security", "cybersecurity", "hack", "vulnerability",
                    "breach", "encryption", "privacy"}] >>

CategoryOf(hits) == IF hits = {} THEN "" ELSE categories[MinOf(hits)].key

CategoryIn(lower) ==
  CategoryOf({k \in 1..Len(categories) :
                \E pattern \in categories[k].patterns : Includes(lower, pattern)})

\* detectCategory on the text of the element; "" stands for undefined
detectCategory(text) == CategoryIn(ToLowerCase(text))

\* text.length < 150
TitleLimit == 150

looksLikeTitle(text) ==
  /\ Len(text) < TitleLimit
  /\ text # ""
  /\ IsUpper(Ch(text, 1))
  /\ \/ Includes(text, "minute read")
     \/ \A i \in 1..Len(text) : Ch(text, i) \notin Terminators

(***************************************************************************)
(* HTML pass.  The document is the sequence of its anchors in document     *)
(* order, each with the texts the pass reads around it: linkText is        *)
(* $link.text(), block the text of closest('td, p, div'), cell the text    *)
(* of closest('td'), parent the text of $link.parent(), nexts the texts    *)
(* of the siblings after the parent, cells the text of the table cell the  *)
(* anchor is in (none or one: tables are not nested), and strong whether   *)
(* the anchor is the first one of a strong element, whose                  *)
(* closest('td, div, p') has the text container.  The text of an element   *)
(* that does not exist is "".                                              *)
(***************************************************************************)
Article(title, summary, url, category, readTime) ==
  [title |-> title, summary |-> summary, url |-> url,
   category |-> category, readTime |-> readTime]

\* summary || 'Article about ' + title
OrAbout(summary, title) == IF summary # "" THEN summary ELSE "Article about " \o title

\* the summary from the text after the title, '' when the title is not in it
SummaryAfter(parentText, title) ==
  IF IndexOf(parentText, title) = 0 THEN ""
  ELSE extractSummaryFromText(Trim(From(parentText, IndexOf(parentText, title) + Len(title))))

\* a line of the parent text that can stand for the title
TitleLine(line) ==
  /\ Len(line) > 15
  /\ Len(line) < 200
  /\ ~Includes(ToLowerCase(line), "sponsor")
  /\ ~Includes(ToLowerCase(line), "advertise")
  /\ ~Includes(ToLowerCase(line), "unsubscribe")

\* the title from the lines of the parent text, given the indices of the
\* lines that can stand for it
FirstTitleLine(title, lines, hits) == IF hits = {} THEN title ELSE lines[MinOf(hits)]

TitleFromLines(title, lines) ==
  FirstTitleLine(title, lines,
                 {k \in 1..Len(lines) : Len(lines[k]) > 10 /\ TitleLine(lines[k])})

TrimAll(lines) == [k \in 1..Len(lines) |-> Trim(lines[k])]

PrimaryTitle(site, title) ==
  IF title = "" \/ Len(title) < 5
    THEN TitleFromLines(title, TrimAll(SplitChars(Trim(site.block), {"\n"})))
    ELSE title

PrimaryInCell(realUrl, title, parentText) ==
  IF isSponsoredContent(parentText) THEN <<>>
  ELSE <<Article(cleanTitle(title), OrAbout(SummaryAfter(parentText, title), title),
                 realUrl, "", "")>>

PrimaryTitled(site, realUrl, title) ==
  IF title # "" /\ Len(title) > 10 THEN PrimaryInCell(realUrl, title, Trim(site.cell))
  ELSE <<>>

PrimaryResolved(site, realUrl) ==
  IF realUrl # "" /\ ~InSkipDomains(realUrl)
    THEN PrimaryTitled(site, realUrl, PrimaryTitle(site, Trim(site.linkText)))
    ELSE <<>>

\* the body of the sweep over the anchors with a tracking href
PrimaryArticle(site) ==
  IF Includes(site.href, TRACKING_URL_PREFIX) /\ ~isAdminLink(site.href)
    THEN PrimaryResolved(site, extractRealUrl(site.href).val)
    ELSE <<>>

\* the summary from the first three siblings after the parent
RECURSIVE SiblingSummary(_, _)
SiblingText(nexts, i, text) ==
  IF text # "" /\ Len(text) > 30 /\ ~looksLikeTitle(text)
    THEN extractSummaryFromText(text)
    ELSE SiblingSummary(nexts, i + 1)

SiblingSummary(nexts, i) ==
  IF i > Len(nexts) \/ i > 3 THEN "" ELSE SiblingText(nexts, i, Trim(nexts[i]))

TableSummary(summary, nexts) ==
  IF summary # "" THEN summary ELSE SiblingSummary(nexts, 1)

TableEmit(title, summary, cellText, cleanUrl) ==
  IF cleanUrl # ""
    THEN <<Article(cleanTitle(title), OrAbout(summary, title), cleanUrl,
                   detectCategory(cellText), extractReadTime(cellText))>>
    ELSE <<>>

TableChecked(site, cellText, title, parentText) ==
  IF isSponsoredContent(parentText) THEN <<>>
  ELSE TableEmit(title, TableSummary(SummaryAfter(parentText, title), site.nexts),
                 cellText, extractRealUrl(site.href).val)

TableLink(site, cellText, title) ==
  IF isArticleLink(site.href, title)
    THEN TableChecked(site, cellText, title, Trim(site.parent))
    ELSE <<>>

\* the body of the sweep over the anchors of the table cells
TableArticle(site) ==
  IF Len(site.cells) = 0 THEN <<>>
  ELSE TableLink(site, site.cells[1], Trim(site.linkText))

StrongEmit(title, summary, containerText, cleanUrl) ==
  IF cleanUrl # ""
    THEN <<Article(cleanTitle(title), OrAbout(summary, title), cleanUrl,
                   detectCategory(containerText), extractReadTime(containerText))>>
    ELSE <<>>

\* containerText.substring(containerText.indexOf(title) + title.length)
StrongChecked(site, title, containerText) ==
  IF isSponsoredContent(containerText) THEN <<>>
  ELSE StrongEmit(title,
                  extractSummaryFromText(
                    From(containerText, IndexOf(containerText, title) + Len(title))),
                  containerText, extractRealUrl(site.href).val)

StrongLink(site, title) ==
  IF isArticleLink(site.href, title)
    THEN StrongChecked(site, title, Trim(site.container))
    ELSE <<>>

\* the body of the sweep over the strong elements
StrongArticle(site) ==
  IF site.strong THEN StrongLink(site, Trim(site.linkText)) ELSE <<>>

\* the articles of one sweep, in document order
RECURSIVE PrimarySweep(_, _)
PrimarySweep(html, i) ==
  IF i > Len(html) THEN <<>> ELSE PrimaryArticle(html[i]) \o PrimarySweep(html, i + 1)

RECURSIVE TableSweep(_, _)
TableSweep(html, i) ==
  IF i > Len(html) THEN <<>> ELSE TableArticle(html[i]) \o TableSweep(html, i + 1)

RECURSIVE StrongSweep(_, _)
StrongSweep(html, i) ==
  IF i > Len(html) THEN <<>> ELSE StrongArticle(html[i]) \o StrongSweep(html, i + 1)

parseHtmlArticles(html) ==
  PrimarySweep(html, 1) \o TableSweep(html, 1) \o StrongSweep(html, 1)

(***************************************************************************)
(* Text pass.                                                              *)
(***************************************************************************)
\* summary.length > 200
SummaryEnough == 200

\* title.length > 10
MinTitleLen == 10

\* \s*(\d+)\s*minute\s*read from position i of the lower-cased line, where
\* digitsEnd is where the digits end
PlainReadTimeEnds(lower, i, digitsEnd) ==
  /\ digitsEnd > i
  /\ LET m == SkipSpaces(lower, digitsEnd)
     IN MatchAt(lower, "minute", m) /\ MatchAt(lower, "read", SkipSpaces(lower, m + 6))

PlainReadTimeAt(lower, i) == PlainReadTimeEnds(lower, i, SkipDigits(lower, i))

\* the lengths k of the title for which /^(.+?)\s*\((\d+)\s*minute\s*read\)/i
\* matches, and those for which /^(.+?)\s*(\d+)\s*minute\s*read/i does
ParenTitleEnds(lower) ==
  {k \in 1..Len(lower) : ReadTimeAt(lower, SkipSpaces(lower, k + 1))}

PlainTitleEnds(lower) ==
  {k \in 1..Len(lower) : PlainReadTimeAt(lower, SkipSpaces(lower, k + 1))}

NoMatch == [ok |-> FALSE, title |-> "", minutes |-> ""]

\* the groups of a match whose lazy first group has length k and whose
\* digits start at position d
MatchGroups(line, k, d) ==
  [ok |-> TRUE, title |-> SubSeq(line, 1, k),
   minutes |-> SubSeq(line, d, SkipDigits(line, d) - 1)]

\* the four patterns in turn; the second and the fourth match nothing that
\* the first and the third, which ignore case, do not
ReadTimeMatchOf(line, parens, plains) ==
  IF parens # {}
    THEN MatchGroups(line, MinOf(parens), SkipSpaces(line, MinOf(parens) + 1) + 1)
  ELSE IF plains # {}
    THEN MatchGroups(line, MinOf(plains), SkipSpaces(line, MinOf(plains) + 1))
  ELSE NoMatch

ReadTimeMatchIn(line, lower) ==
  ReadTimeMatchOf(line, ParenTitleEnds(lower), PlainTitleEnds(lower))

readTimeMatch(line) == ReadTimeMatchIn(line, ToLowerCase(line))

\* the loop that builds the summary from the lines after line i
RECURSIVE SummaryLines(_, _, _, _)
SummaryLine(lines, i, j, summary) ==
  IF Len(summary) > SummaryEnough THEN summary ELSE SummaryLines(lines, i, j + 1, summary)

SummaryLines(lines, i, j, summary) ==
  IF j >= Min(i + 5, Len(lines) + 1) THEN summary
  ELSE IF ~looksLikeTitle(lines[j])
    THEN SummaryLine(lines, i, j, summary \o lines[j] \o " ")
  ELSE SummaryLines(lines, i, j + 1, summary)

\* lines[j].match(/https?:\/\/[^\s]+/): the first match, "" when none
HttpRunIn(line, hits) ==
  IF hits = {} THEN "" ELSE HttpRunAt(line, MinOf(hits), WhiteSpace)

FirstHttpRun(line) ==
  HttpRunIn(line, {p \in 1..Len(line) : HttpRunAt(line, p, WhiteSpace) # ""})

\* the loop that looks for a URL in the lines i-2..i+2
RECURSIVE UrlNear(_, _, _)
UrlTried(lines, i, j, url) == IF url # "" THEN url ELSE UrlNear(lines, i, j + 1)

UrlOfLine(lines, i, j, urlMatch) ==
  IF urlMatch = "" THEN UrlNear(lines, i, j + 1)
  ELSE UrlTried(lines, i, j, extractRealUrl(urlMatch).val)

UrlNear(lines, i, j) ==
  IF j > i + 2 \/ j > Len(lines) THEN ""
  ELSE IF j < 1 THEN UrlNear(lines, i, j + 1)
  ELSE UrlOfLine(lines, i, j, FirstHttpRun(lines[j]))

\* the check of the candidate with a title of 10 characters accepted
TextEmitFromTen(title, readTime, summary, url) ==
  IF Len(title) >= MinTitleLen /\ url # "" /\ ~isSponsoredContent(title \o " " \o summary)
    THEN <<Article(cleanTitle(title), OrAbout(Trim(summary), title), url, "", readTime)>>
    ELSE <<>>

TextEmit(title, readTime, summary, url) ==
  IF Len(title) > MinTitleLen /\ url # "" /\ ~isSponsoredContent(title \o " " \o summary)
    THEN <<Article(cleanTitle(title), OrAbout(Trim(summary), title), url, "", readTime)>>
    ELSE <<>>

TextMatched(lines, i, match) ==
  IF match.ok
    THEN TextEmit(Trim(match.title), match.minutes \o " min",
                  SummaryLines(lines, i, i + 1, ""), UrlNear(lines, i, i - 2))
    ELSE <<>>

\* the body of the loop over the lines
TextArticle(lines, i) == TextMatched(lines, i, readTimeMatch(lines[i]))

RECURSIVE TextLoop(_, _)
TextLoop(lines, i) ==
  IF i > Len(lines) THEN <<>> ELSE TextArticle(lines, i) \o TextLoop(lines, i + 1)

\* text.split('\n').map(line => line.trim()).filter(line => line)
NonEmptyLines(text) == SelectSeq(TrimAll(SplitChars(text, {"\n"})), LAMBDA l : l # "")

parseTextArticles(text) == TextLoop(NonEmptyLines(text), 1)

(***************************************************************************)
(* Extraction and the processing of one message.                           *)
(***************************************************************************)
\* a merge that puts the text articles before the others
PrependTextArticles(as, textArticles, i) == SubSeq(textArticles, i, Len(textArticles)) \o as

\* the loop that adds the text articles no article so far is similar to
RECURSIVE AddTextArticles(_, _, _)
AddTextArticles(as, textArticles, i) ==
  IF i > Len(textArticles) THEN as
  ELSE IF \E k \in 1..Len(as) : Similar(as[k].title, textArticles[i].title)
    THEN AddTextArticles(as, textArticles, i + 1)
  ELSE AddTextArticles(Append(as, textArticles[i]), textArticles, i + 1)

HtmlArticles(html) == IF Len(html) = 0 THEN <<>> ELSE parseHtmlArticles(html)

TextArticles(text) == IF text = "" THEN <<>> ELSE parseTextArticles(text)

\* the articles before deduplication
AllArticles(html, text) == AddTextArticles(HtmlArticles(html), TextArticles(text), 1)

\* an extraction that returns the merged list as it is
extractWithoutDedup(html, text) == AllArticles(html, text)

extractArticlesEnhanced(html, text) == deduplicateArticles(AllArticles(html, text))

emailSkipKeywords == {"confirm", "welcome", "verify", "subscription", "thank you"}

\* text.length < 500
MinTextLen == 500

shouldSkipEmail(subject, text) ==
  \/ \E keyword \in emailSkipKeywords : Includes(ToLowerCase(subject), keyword)
  \/ Len(text) < MinTextLen

\* emailDate < oneDayAgo, in hours before now: the message is age hours old,
\* and oneDayAgo, the same local time of day one calendar day back, is
\* dayLength hours ago
IsStale(age, dayLength) == 0 - age < 0 - dayLength

(***************************************************************************)
(* Deduplication runs: deduplicateArticles applied to a candidate list and *)
(* then to its own output.                                                 *)
(***************************************************************************)
MaxArticles == 3

Art(t, u) == [title |-> t, url |-> u]

\* candidate articles the runs draw from
ArticlePool ==
  { Art("OpenAI Ships New Model", "https://example.com/a"),
    Art("OpenAI ships new model today", "https://example.com/b"),
    Art("OpenAI Ships", "https://example.com/c"),
    Art("New Model", ""),
    Art("Google Buys Small AI Chip Maker", "https://example.com/a"),
    Art("Google Buys Tiny AI Chip Maker", "https://example.com/d"),
    Art("Maker Google   Buys AI Chip Small", ""),
    Art("new model", "https://example.com/e") }

ArticleLists == UNION {[1..n -> ArticlePool] : n \in 0..MaxArticles}

\* the state of the runs that a specification leaves out
IdleResolve ==
  /\ rin = [kind |-> "direct", href |-> "", dest |-> <<>>]
  /\ rout = Return("")
  /\ rpc = "off"

IdleDedup ==
  /\ articles = <<>>
  /\ unique = <<>>
  /\ kept = {}
  /\ rerun = <<>>
  /\ dpc = "off"

IdleSponsor ==
  /\ stext = [text |-> "", pieces |-> <<>>]
  /\ sverdict = FALSE
  /\ spc = "off"

IdleSummary ==
  /\ cin = ""
  /\ cout = ""
  /\ cpc = "off"

IdleEmail ==
  /\ email = [subject |-> "", html |-> <<>>, text |-> "", age |-> 0]
  /\ dayHours = 24
  /\ candidates = <<>>
  /\ extracted = FALSE
  /\ saved = <<>>
  /\ cursor = 1
  /\ ppc = "off"

IdleExtract ==
  /\ xin = [html |-> <<>>, text |-> ""]
  /\ xout = [html |-> <<>>, text |-> <<>>, final |-> <<>>]
  /\ xpc = "off"

IdleFault ==
  /\ fin = [html |-> <<>>, text |-> "", raises |-> {}]
  /\ fout = [aborted |-> FALSE, candidates |-> <<>>]
  /\ fpc = "off"

IdleHandlers ==
  /\ msgs = <<>>
  /\ arrays = <<>>
  /\ results = <<>>
  /\ hpc = <<>>

IdleSimilarity ==
  /\ tin = [str1 |-> "", str2 |-> ""]
  /\ tout = <<0, 1>>
  /\ tpc = "off"

IdleStore ==
  /\ rows = <<>>
  /\ before = <<>>
  /\ submitted = <<>>
  /\ created = [kind |-> "fall", val |-> ""]

IdleChat ==
  /\ chatReq = [message |-> ""]
  /\ chatRes = [status |-> 0]
  /\ chatPc = "off"

IdleLifetime ==
  /\ clock = 0
  /\ artTable = {}
  /\ osIndex = {}
  /\ purged = {}

IdleScrape ==
  /\ scrapeUrl = [href |-> "", valid |-> FALSE, problematic |-> FALSE]
  /\ firstRetries = 0
  /\ retriesLeft = 0
  /\ fetches = 0
  /\ scrapeRes = [settled |-> FALSE]
  /\ scrapePc = "idle"

IdleLoop ==
  /\ batchSize = 0
  /\ artIdx = 0
  /\ saveStep = "idle"
  /\ articleContent = ""
  /\ scrapeFailed = {}
  /\ embedCalls = {}
  /\ createCalls = {}
  /\ dbRows = {}
  /\ indexedIds = {}
  /\ savedCount = 0

IdleMailbox ==
  /\ fetchCount = 0
  /\ emitted = 0
  /\ bodyHandler = <<>>
  /\ imapEnded = FALSE
  /\ resolved = FALSE

IdleEmbeddings ==
  /\ pipeline = "null"
  /\ isLoading = FALSE
  /\ initializationPromise = "null"
  /\ callerPc = <<>>
  /\ activeLoads = 0
  /\ loadStarts = 0
  /\ loadedAt = 0

IdleScheduler ==
  /\ nodeEnv = ""
  /\ processingRuns = FALSE
  /\ cleanupRuns = FALSE
  /\ schedulerCalls = <<>>
  /\ statusOut = [reported |-> FALSE]

IdleLater == IdleExtract /\ IdleFault /\ IdleHandlers /\ IdleSimilarity /\ IdleStore /\ IdleChat /\ IdleLifetime /\ IdleScrape /\ IdleLoop /\ IdleMailbox /\ IdleEmbeddings /\ IdleScheduler

InitDedup ==
  /\ articles \in ArticleLists
  /\ unique = <<>>
  /\ kept = {}
  /\ rerun = <<>>
  /\ dpc = "in"
  /\ IdleResolve
  /\ IdleSponsor
  /\ IdleSummary
  /\ IdleEmail
  /\ IdleLater

Deduplicate ==
  /\ dpc = "in"
  /\ unique' = deduplicateArticles(articles)
  /\ kept' = {DedupIndices(articles)[k] : k \in 1..Len(DedupIndices(articles))}
  /\ dpc' = "once"
  /\ UNCHANGED <<articles, rerun, resolveVars, sponsorVars, summaryVars, emailVars>>
  /\ UNCHANGED laterVars

DeduplicateAgain ==
  /\ dpc = "once"
  /\ rerun' = deduplicateArticles(unique)
  /\ dpc' = "twice"
  /\ UNCHANGED <<articles, unique, kept, resolveVars, sponsorVars, summaryVars, emailVars>>
  /\ UNCHANGED laterVars

NextDedup == Deduplicate \/ DeduplicateAgain

(***************************************************************************)
(* Resolver runs: extractRealUrl applied to an href.  The hrefs are        *)
(* destinations taken as they are ("direct"), wrapped in a tracking        *)
(* redirect after one or two rounds of encodeURIComponent ("single",       *)
(* "double"), and tracking redirects with a malformed segment ("broken").  *)
(***************************************************************************)
MaxParams == 2

\* encodeURIComponent
RECURSIVE EncodeComponentRange(_, _, _)
EncodeComponentRange(s, lo, hi) ==
  IF lo > hi THEN ""
  ELSE IF lo = hi
    THEN LET c == Ch(s, lo)
         IN IF IsWord(c) \/ c \in {"-", ".", "!", "~", "*", "'", "(", ")"}
              THEN c ELSE PercentEncode(c)
  ELSE LET mid == (lo + hi) \div 2
       IN EncodeComponentRange(s, lo, mid) \o EncodeComponentRange(s, mid + 1, hi)

encodeURIComponent(s) == EncodeComponentRange(s, 1, Len(s))

\* a tracking redirect whose destination segment is seg
TrackingHref(seg) == TRACKING_URL_PREFIX \o "/CL0/" \o seg \o "/1/0100019a5e/sig=Zm9v"

DestSchemes == {"https://", "http://"}

DestHosts == {"example.com", "news.ycombinator.com"}

DestPaths == {"/", "/article", "/article/", "/a%20b"}

ParamPool == {"utm_source=x", "id=7", "gclid=9", "ref=hn"}

ParamLists == UNION {[1..n -> ParamPool] : n \in 0..MaxParams}

\* the parameter name of "name=value"
ParamName(param) == SubSeq(param, 1, FirstOf(param, {"="}, 1) - 1)

\* destinations in normal form, as their parts
NormalDests ==
  [scheme : DestSchemes, host : DestHosts, path : DestPaths, params : ParamLists]

DestText(d) ==
  d.scheme \o d.host \o d.path
    \o (IF Len(d.params) = 0 THEN "" ELSE "?" \o Join(d.params, "&"))

\* hrefs that are not the encoding of a normal-form destination
OtherHrefs ==
  { \* blocklisted destinations
    [kind |-> "direct", href |-> "https://www.linkedin.com/in/someone"],
    [kind |-> "direct", href |-> "https://LinkedIn.com/in/someone"],
    [kind |-> "direct", href |-> "https://tldr.tech/signup"],
    [kind |-> "direct", href |-> "https://example.com/manage/prefs"],
    [kind |-> "single", href |-> TrackingHref("https%3A%2F%2Fwww.linkedin.com%2Fin%2Fsomeone")],
    [kind |-> "single", href |-> TrackingHref("https%3A%2F%2Ftldrnewsletter.com%2Fweb-version")],
    [kind |-> "single", href |-> TrackingHref("https%3A%2F%2Fa.tldrnewsletter.com%2Funsubscribe")],
    \* destinations the URL class rewrites
    [kind |-> "direct", href |-> "https://linked\tin.com/in/someone"],
    [kind |-> "direct", href |-> "https://linkedin%2Ecom/in/someone"],
    [kind |-> "direct", href |-> "https://example.com/a/../b"],
    [kind |-> "direct", href |-> "https://example.com:443/x?q"],
    [kind |-> "direct", href |-> "http://Example.COM/x#top"],
    [kind |-> "direct", href |-> "https://exa mple.com/x?y=1"],
    [kind |-> "direct", href |-> "https://example.com/x y/"],
    [kind |-> "single", href |-> TrackingHref("https:%2F%2Fexample.com%3Fparam%3Dvalue")],
    [kind |-> "single", href |-> TrackingHref("https%3A%2F%2Fexample.com%3A99999%2Fx%2F")],
    [kind |-> "single", href |-> TrackingHref("see%20https%3A%2F%2Fexample.com%2Fx%3Fid%3D7")],
    \* not a URL at all
    [kind |-> "direct", href |-> ""],
    [kind |-> "direct", href |-> "mailto:dan@tldrnewsletter.com"],
    [kind |-> "direct", href |-> "/relative/path"],
    \* tracking redirects with a malformed segment
    [kind |-> "broken", href |-> TrackingHref("%")],
    [kind |-> "broken", href |-> TrackingHref("https%3A%2F%2Fexample.com%2F%zz")],
    [kind |-> "broken", href |-> TrackingHref("https%3A%2F%2Fexample.com%2F%E0%A4")],
    [kind |-> "broken", href |-> TrackingHref("https%3A%2F%2Fexample.com%2F100%2525%25")],
    [kind |-> "broken", href |-> TrackingHref("ftp%3A%2F%2Fexample.com%2Ffile")],
    [kind |-> "broken", href |-> TrackingHref("not-a-url")],
    [kind |-> "broken", href |-> TrackingHref("")],
    [kind |-> "broken", href |-> TRACKING_URL_PREFIX \o "/web-version?ep=1"],
    [kind |-> "broken", href |-> "http://evil.example/" \o TrackingHref("%C3")] }

ResolveInputs ==
  {[kind |-> "direct", href |-> DestText(d), dest |-> d] : d \in NormalDests}
    \cup {[kind |-> "single", href |-> TrackingHref(encodeURIComponent(DestText(d))),
           dest |-> d] : d \in NormalDests}
    \cup {[kind |-> "double",
           href |-> TrackingHref(encodeURIComponent(encodeURIComponent(DestText(d)))),
           dest |-> d] : d \in NormalDests}
    \cup {[kind |-> o.kind, href |-> o.href, dest |-> <<>>] : o \in OtherHrefs}

InitResolve ==
  /\ rin \in ResolveInputs
  /\ rout = Return("")
  /\ rpc = "in"
  /\ IdleDedup
  /\ IdleSponsor
  /\ IdleSummary
  /\ IdleEmail
  /\ IdleLater

Resolve ==
  /\ rpc = "in"
  /\ rout' = extractRealUrl(rin.href)
  /\ rpc' = "done"
  /\ UNCHANGED <<rin, dedupVars, sponsorVars, summaryVars, emailVars>>
  /\ UNCHANGED laterVars

NextResolve == Resolve

(***************************************************************************)
(* Sponsor runs: isSponsoredContent applied to a text put together from    *)
(* pieces.  Each piece is recorded with what it holds: a sponsor marker    *)
(* (one of the sponsor indicators, in any case, also inside a word), a     *)
(* read-time marker (a parenthesised "(N minute read)", in any case), or   *)
(* neither.                                                                *)
(***************************************************************************)
MaxPieces == 2

Piece(t, sponsor, readTime) == [text |-> t, sponsor |-> sponsor, readTime |-> readTime]

PiecePool ==
  { Piece("Sponsored by Acme", TRUE, FALSE),
    Piece("SPONSOR", TRUE, FALSE),
    Piece("An advertisement", TRUE, FALSE),
    Piece("Ad: try Acme", TRUE, FALSE),
    Piece("Must read: chips", TRUE, FALSE),
    Piece("Promoted", TRUE, FALSE),
    Piece("Partner Content", TRUE, FALSE),
    Piece("paid content", TRUE, FALSE),
    Piece("Brought to you by Acme", TRUE, FALSE),
    Piece("(3 minute read)", FALSE, TRUE),
    Piece("(12 Minute  Read)", FALSE, TRUE),
    Piece("(5minuteread)", FALSE, TRUE),
    Piece("3 minute read", FALSE, FALSE),
    Piece("(three minute read)", FALSE, FALSE),
    Piece("(3 minutes read)", FALSE, FALSE),
    Piece("Tool Launches New Feature", FALSE, FALSE),
    Piece("A broad roadmap", FALSE, FALSE) }

PieceLists == UNION {[1..n -> PiecePool] : n \in 0..MaxPieces}

PieceText(ps) == Join([k \in 1..Len(ps) |-> ps[k].text], " ")

InitSponsor ==
  /\ \E ps \in PieceLists : stext = [text |-> PieceText(ps), pieces |-> ps]
  /\ sverdict = FALSE
  /\ spc = "in"
  /\ IdleResolve
  /\ IdleDedup
  /\ IdleSummary
  /\ IdleEmail
  /\ IdleLater

CheckSponsored ==
  /\ spc = "in"
  /\ sverdict' = isSponsoredContent(stext.text)
  /\ spc' = "done"
  /\ UNCHANGED <<stext, resolveVars, dedupVars, summaryVars, emailVars>>
  /\ UNCHANGED laterVars

NextSponsor == CheckSponsored

(***************************************************************************)
(* Summary runs: cleanSummary applied to a text put together from parts:   *)
(* sentences, fragments, promotional phrases, tracking codes and dots,     *)
(* some of them long enough for the length limits to apply.                *)
(***************************************************************************)
MaxParts == 2

\* n copies of w
RECURSIVE Repeat(_, _)
Repeat(w, n) ==
  IF n = 0 THEN ""
  ELSE IF n = 1 THEN w
  ELSE Repeat(w, n \div 2) \o Repeat(w, n - n \div 2)

LongSentence == "The model is " \o Repeat("very ", 50) \o "large."

LongQuote == "Researchers said the chip " \o Repeat("really ", 40) \o "works!"

LongFragment == Repeat("lorem ", 55)

LongWord == Repeat("x", 320)

PartPool ==
  { LongSentence, LongQuote, LongFragment, LongWord,
    "OpenAI is shipping a new model today.",
    "It works.",
    "(4 minute read) Also: signup link.",
    "Wait... what is happening here?",
    "...and then",
    "(Sponsor) Sign up for our weekly digest!",
    "Read the TLDR AI newsletter here",
    "Join 1M TLDR readers",
    "Sponsored by Acme Corp. Subscribe to TLDR",
    "ref=3D4F09",
    "two  spaces\tand\nlines",
    "An exclusive offer for TLDR fans is coming." }

PartLists == UNION {[1..n -> PartPool] : n \in 0..MaxParts}

InitSummary ==
  /\ \E ps \in PartLists : cin = Join(ps, " ")
  /\ cout = ""
  /\ cpc = "in"
  /\ IdleResolve
  /\ IdleDedup
  /\ IdleSponsor
  /\ IdleEmail
  /\ IdleLater

Summarize ==
  /\ cpc = "in"
  /\ cout' = cleanSummary(cin)
  /\ cpc' = "done"
  /\ UNCHANGED <<cin, resolveVars, dedupVars, sponsorVars, emailVars>>
  /\ UNCHANGED laterVars

NextSummary == Summarize

(***************************************************************************)
(* Message runs: processEmail applied to one message.  The HTML body is    *)
(* put together from anchors in a few shapes of markup; the message is     *)
(* age hours old, and the local day before now was dayHours hours long    *)
(* (23 or 25 when the clock changed during it).  The services that scrape, *)
(* embed, save and index an article can fail for any article.              *)
(***************************************************************************)
MaxSites == 1

\* <table><tr><td><a href>L</a>R</td></tr></table>
CellSite(href, l, r) ==
  [href |-> href, linkText |-> l, block |-> l \o r, cell |-> l \o r,
   parent |-> l \o r, nexts |-> <<>>, cells |-> <<l \o r>>,
   strong |-> FALSE, container |-> ""]

\* <table><tr><td><strong><a href>L</a></strong>R</td></tr></table>
StrongSite(href, l, r) ==
  [href |-> href, linkText |-> l, block |-> l \o r, cell |-> l \o r,
   parent |-> l, nexts |-> <<>>, cells |-> <<l \o r>>,
   strong |-> TRUE, container |-> l \o r]

\* <div><p><a href>L</a></p><p>R</p></div>
ParagraphSite(href, l, r) ==
  [href |-> href, linkText |-> l, block |-> l, cell |-> "",
   parent |-> l, nexts |-> <<r>>, cells |-> <<>>,
   strong |-> FALSE, container |-> ""]

ToolHref == TrackingHref("https%3A%2F%2Fexample.com%2Ftool%3Futm_source%3Dtldr")

ToolCellText == "Tool Launches New Feature (4 minute read). Also: signup link."

LongTitle == "Tool " \o Repeat("Launches ", 60) \o "Feature"

SitePool ==
  { CellSite(ToolHref, "Tool Launches New Feature", " (4 minute read). Also: signup link."),
    CellSite(ToolHref, "Tool Launches New Feature (4 minute read)", ". Also: signup link."),
    CellSite(ToolHref, "", ToolCellText),
    StrongSite(ToolHref, "Tool Launches New Feature", " (4 minute read). Also: signup link."),
    StrongSite("https://example.com/openai-model?utm_source=tldr",
               "OpenAI Ships New Model (5 minute read)",
               " OpenAI is shipping a new model to developers today. It is faster."),
    ParagraphSite("https://example.com/chips",
                  "Google Buys Small AI Chip Maker",
                  "Google is buying a chip maker to build its own hardware."),
    CellSite(TrackingHref("https%3A%2F%2Facme.example%2Fcloud"),
             "Acme Cloud Platform (Sponsor)",
             " Acme is the cloud for teams. Sponsored by Acme."),
    CellSite(TrackingHref("https%3A%2F%2Ftldr.tech%2Fsignup"), "Sign up for TLDR", ""),
    CellSite(ToolHref, LongTitle, ""),
    StrongSite("https://example.com/gpt", "GPT-5",
               " OpenAI is shipping a new model to developers today.") }

HtmlBodies == UNION {[1..n -> SitePool] : n \in 0..MaxSites}

Filler == Repeat("This issue has no plain text version for this reader ", 10)

LongLine == "The part is " \o Repeat("really ", 80) \o "fast."

TextBodies ==
  { "",
    Filler,
    "Tool Launches New Feature (4 minute read)\n" \o ToolHref
      \o "\nThe tool is adding a new feature for teams.\n" \o Filler,
    "Chip Maker Ships New Part (3 minute read)\nhttps://example.com/part\n"
      \o LongLine \o "\n",
    "Acme Cloud Platform 2 minute read\nhttps://acme.example/cloud\n"
      \o "Brought to you by Acme.\n" \o Filler }

Subjects == {"TLDR AI 2026-11-04", "Please confirm your subscription"}

Ages == {1, 24, 25, 48}

DayLengths == {23, 24, 25}

InitEmail ==
  /\ email \in [subject : Subjects, html : HtmlBodies, text : TextBodies, age : Ages]
  /\ dayHours \in DayLengths
  /\ candidates = <<>>
  /\ extracted = FALSE
  /\ saved = <<>>
  /\ cursor = 1
  /\ ppc = "in"
  /\ IdleResolve
  /\ IdleDedup
  /\ IdleSponsor
  /\ IdleSummary
  /\ IdleLater

\* processEmail up to the loop over the articles
ProcessEmail ==
  /\ ppc = "in"
  /\ IF IsStale(email.age, dayHours)
       THEN ppc' = "stale" /\ UNCHANGED <<candidates, extracted>>
     ELSE IF shouldSkipEmail(email.subject, email.text)
       THEN ppc' = "skipped" /\ UNCHANGED <<candidates, extracted>>
     ELSE /\ candidates' = extractArticlesEnhanced(email.html, email.text)
          /\ extracted' = TRUE
          /\ ppc' = "saving"
  /\ UNCHANGED <<email, dayHours, saved, cursor>>
  /\ UNCHANGED <<resolveVars, dedupVars, sponsorVars, summaryVars>>
  /\ UNCHANGED laterVars

\* one turn of the loop: the article is embedded, saved and indexed
SaveArticle ==
  /\ ppc = "saving"
  /\ cursor <= Len(candidates)
  /\ saved' = Append(saved, candidates[cursor])
  /\ cursor' = cursor + 1
  /\ UNCHANGED <<email, dayHours, candidates, extracted, ppc>>
  /\ UNCHANGED <<resolveVars, dedupVars, sponsorVars, summaryVars>>
  /\ UNCHANGED laterVars

\* one turn of the loop: a service throws, the catch logs the error
SaveFails ==
  /\ ppc = "saving"
  /\ cursor <= Len(candidates)
  /\ cursor' = cursor + 1
  /\ UNCHANGED <<email, dayHours, candidates, extracted, saved, ppc>>
  /\ UNCHANGED <<resolveVars, dedupVars, sponsorVars, summaryVars>>
  /\ UNCHANGED laterVars

\* the loop is over
FinishEmail ==
  /\ ppc = "saving"
  /\ cursor > Len(candidates)
  /\ ppc' = "done"
  /\ UNCHANGED <<email, dayHours, candidates, extracted, saved, cursor>>
  /\ UNCHANGED <<resolveVars, dedupVars, sponsorVars, summaryVars>>
  /\ UNCHANGED laterVars

Next == ProcessEmail \/ SaveArticle \/ SaveFails \/ FinishEmail

\* the messages received on a day of 24 hours, an hour or two days ago
InitOrdinaryDay ==
  /\ InitEmail
  /\ dayHours = 24
  /\ email.age \in {1, 48}

(***************************************************************************)
(* Extraction runs: extractArticlesEnhanced applied to an HTML body of a   *)
(* few anchors and a text body, with the articles of each pass recorded.   *)
(* Every anchor has a destination of its own.                              *)
(***************************************************************************)
MaxAnchors == 2

OrderPool ==
  { StrongSite("https://example.com/new-model", "New Model",
               " A new model is coming to developers."),
    StrongSite("https://example.com/openai", "OpenAI Ships New Model",
               " OpenAI is shipping a new model today."),
    CellSite(ToolHref, "Tool Launches New Feature",
             " (4 minute read). Also: signup link."),
    CellSite(TrackingHref("https%3A%2F%2Fexample.com%2Fchips"),
             "Google Buys Small AI Chip Maker", " Google is buying a chip maker.") }

OrderBodies == UNION {[1..n -> OrderPool] : n \in 0..MaxAnchors}

OrderTexts ==
  { "",
    "OpenAI Ships (3 minute read)\nhttps://example.com/ships\n"
      \o "OpenAI is shipping it to everyone.\n",
    "Chip Maker Ships New Part (3 minute read)\nhttps://example.com/part\n"
      \o "The part is fast.\n",
    "Tool Launches New Feature (4 minute read)\n" \o ToolHref
      \o "\nThe tool is adding a new feature for teams.\n"
      \o "It is rolling out to everyone this week.\n"
      \o "Chip Maker Ships New Part (3 minute read)\nhttps://example.com/part\n"
      \o "The part is fast.\n" }

IdleFirst ==
  /\ IdleResolve
  /\ IdleDedup
  /\ IdleSponsor
  /\ IdleSummary
  /\ IdleEmail

firstVars == <<resolveVars, dedupVars, sponsorVars, summaryVars, emailVars>>

InitExtract ==
  /\ xin \in [html : OrderBodies, text : OrderTexts]
  /\ xout = [html |-> <<>>, text |-> <<>>, final |-> <<>>]
  /\ xpc = "in"
  /\ IdleFirst
  /\ IdleFault
  /\ IdleHandlers
  /\ IdleSimilarity
  /\ IdleStore
  /\ IdleChat
  /\ IdleLifetime
  /\ IdleScrape
  /\ IdleLoop
  /\ IdleMailbox
  /\ IdleEmbeddings
  /\ IdleScheduler

Extract ==
  /\ xpc = "in"
  /\ xout' = [html |-> HtmlArticles(xin.html),
              text |-> TextArticles(xin.text),
              final |-> extractArticlesEnhanced(xin.html, xin.text)]
  /\ xpc' = "done"
  /\ UNCHANGED <<xin, firstVars, faultVars, handlerVars, similarityVars, storeVars, chatVars, lifetimeVars, scrapeVars, loopVars, mailboxVars, embeddingVars, schedulerVars>>

NextExtract == Extract

(***************************************************************************)
(* Extraction runs on sponsored blocks: the HTML pass applied to anchors   *)
(* whose enclosing block has or has not a sponsor marker.                  *)
(***************************************************************************)
\* <div><a href>L</a>R</div>
DivSite(href, l, r) ==
  [href |-> href, linkText |-> l, block |-> l \o r, cell |-> "",
   parent |-> l \o r, nexts |-> <<>>, cells |-> <<>>,
   strong |-> FALSE, container |-> ""]

BlockPool ==
  { CellSite(TrackingHref("https%3A%2F%2Facme.example%2Fcloud"),
             "Acme Cloud Platform", " Sponsored by Acme. The cloud for teams."),
    CellSite(TrackingHref("https%3A%2F%2Facme.example%2Fread"),
             "Acme Cloud Platform Report",
             " (2 minute read) Sponsored by Acme. The cloud for teams."),
    StrongSite("https://acme.example/strong", "Acme Cloud Platform",
               " Sponsored by Acme. The cloud for teams."),
    StrongSite("https://acme.example/inside", "Sponsored: Acme Cloud",
               " The cloud for teams."),
    DivSite(TrackingHref("https%3A%2F%2Facme.example%2Fdiv"),
            "Acme Cloud Platform", " Sponsored by Acme. The cloud for teams."),
    DivSite(TrackingHref("https%3A%2F%2Fexample.com%2Fchips"),
            "Google Buys Small AI Chip Maker", " Google is buying a chip maker."),
    CellSite(ToolHref, "Tool Launches New Feature",
             " (4 minute read). Also: signup link.") }

BlockBodies == UNION {[1..n -> BlockPool] : n \in 0..MaxAnchors}

InitBlocks ==
  /\ xin \in [html : BlockBodies, text : {""}]
  /\ xout = [html |-> <<>>, text |-> <<>>, final |-> <<>>]
  /\ xpc = "in"
  /\ IdleFirst
  /\ IdleFault
  /\ IdleHandlers
  /\ IdleSimilarity
  /\ IdleStore
  /\ IdleChat
  /\ IdleLifetime
  /\ IdleScrape
  /\ IdleLoop
  /\ IdleMailbox
  /\ IdleEmbeddings
  /\ IdleScheduler

(***************************************************************************)
(* Extraction runs on one title line: the text pass applied to a text of   *)
(* a title line, with or without a read-time marker, followed by a line    *)
(* with a URL and a line of summary, either of which may be missing.       *)
(***************************************************************************)
LineTitles ==
  { "Tiny Chip", "Chip Maker", "Chip Makers", "Chip Maker Ships New Part",
    "Sponsored Chip Maker News" }

LineMarkers == {"", " (3 minute read)", " 3 minute read"}

LineUrls ==
  {"", "https://example.com/part", "https://linkedin.com/in/someone", ToolHref}

LineSummaries ==
  {"", "The part is fast.", "Brought to you by Acme.", "this part is sponsored."}

\* a line of the text, nothing when the line is missing
TextLine(line) == IF line = "" THEN "" ELSE line \o "\n"

TextOfParts(p) ==
  p.title \o p.marker \o "\n" \o TextLine(p.url) \o TextLine(p.summary)

InitTextPass ==
  /\ \E p \in [title : LineTitles, marker : LineMarkers, url : LineUrls,
               summary : LineSummaries] :
       xin = [html |-> <<>>, text |-> TextOfParts(p), parts |-> p]
  /\ xout = [html |-> <<>>, text |-> <<>>, final |-> <<>>]
  /\ xpc = "in"
  /\ IdleFirst
  /\ IdleFault
  /\ IdleHandlers
  /\ IdleSimilarity
  /\ IdleStore
  /\ IdleChat
  /\ IdleLifetime
  /\ IdleScrape
  /\ IdleLoop
  /\ IdleMailbox
  /\ IdleEmbeddings
  /\ IdleScheduler

(***************************************************************************)
(* Message handler with a failing anchor: one fresh newsletter message     *)
(* goes through the body handler of processEmails; reading the text of the *)
(* anchors in fin.raises throws (cheerio's text() walks the element's      *)
(* subtree recursively).                                                   *)
(***************************************************************************)
SampleLinks == 5

\* whether the HTML pass reads the text of anchor i: the sample of the first
\* links, the primary sweep, the table-cell sweep or the strong sweep
ReadsLinkText(html, i) ==
  \/ i <= SampleLinks
  \/ /\ Includes(html[i].href, TRACKING_URL_PREFIX)
     /\ ~isAdminLink(html[i].href)
     /\ extractRealUrl(html[i].href).val # ""
     /\ ~InSkipDomains(extractRealUrl(html[i].href).val)
  \/ Len(html[i].cells) > 0
  \/ html[i].strong

\* parseHtmlArticles has no handler: what an anchor throws leaves it
parseHtmlOutcome(html, raises) ==
  IF \E i \in raises : ReadsLinkText(html, i)
    THEN Throw
    ELSE Return(parseHtmlArticles(html))

\* extractArticlesEnhanced has no handler either
extractOutcome(html, text, raises) ==
  IF Len(html) > 0 /\ parseHtmlOutcome(html, raises).kind = "throw"
    THEN Throw
    ELSE Return(extractArticlesEnhanced(html, text))

\* try { await this.processEmail(parsed) } catch (error) { console.error }
HandlerResult(outcome) ==
  IF outcome.kind = "throw"
    THEN [aborted |-> TRUE, candidates |-> <<>>]
    ELSE [aborted |-> FALSE, candidates |-> outcome.val]

FaultInputs ==
  {m \in [html : OrderBodies, text : OrderTexts, raises : SUBSET (1..MaxAnchors)] :
     m.raises \subseteq 1..Len(m.html)}

InitFault ==
  /\ fin \in FaultInputs
  /\ fout = [aborted |-> FALSE, candidates |-> <<>>]
  /\ fpc = "in"
  /\ IdleFirst
  /\ IdleExtract
  /\ IdleHandlers
  /\ IdleSimilarity
  /\ IdleStore
  /\ IdleChat
  /\ IdleLifetime
  /\ IdleScrape
  /\ IdleLoop
  /\ IdleMailbox
  /\ IdleEmbeddings
  /\ IdleScheduler

HandleMessage ==
  /\ fpc = "in"
  /\ fout' = HandlerResult(extractOutcome(fin.html, fin.text, fin.raises))
  /\ fpc' = "done"
  /\ UNCHANGED <<fin, firstVars, extractVars, handlerVars, similarityVars, storeVars, chatVars, lifetimeVars, scrapeVars, loopVars, mailboxVars, embeddingVars, schedulerVars>>

NextFault == HandleMessage

(***************************************************************************)
(* Concurrent body handlers: processEmails starts one asynchronous handler *)
(* per fetched message; a handler runs until its next await, where the     *)
(* handlers of the other messages can run.  The messages are fresh         *)
(* newsletters.                                                            *)
(***************************************************************************)
MaxMessages == 2

MessagePool ==
  { [html |-> <<>>, text |-> ""],
    [html |-> <<CellSite(ToolHref, "Tool Launches New Feature",
                         " (4 minute read). Also: signup link.")>>,
     text |-> ""],
    [html |-> <<StrongSite("https://example.com/openai", "OpenAI Ships New Model",
                           " OpenAI is shipping a new model today.")>>,
     text |-> "OpenAI Ships (3 minute read)\nhttps://example.com/ships\n"
                \o "OpenAI is shipping it to everyone.\n"],
    [html |-> <<>>,
     text |-> "Chip Maker Ships New Part (3 minute read)\nhttps://example.com/part\n"
                \o "The part is fast.\n"],
    [html |-> <<CellSite(TrackingHref("https%3A%2F%2Fexample.com%2Fchips"),
                         "Google Buys Small AI Chip Maker",
                         " Google is buying a chip maker.")>>,
     text |-> "Tool Launches New Feature (4 minute read)\n" \o ToolHref
                \o "\nThe tool is adding a new feature for teams.\n"] }

\* one array that all the calls use
ArrayOfInstance(m) == 1

\* const articles: Article[] = []: the array of a call is the call's own
ArrayOfCall(m) == m

\* if (html) articles.push(...htmlArticles)
PushHtml(array, html) == array \o HtmlArticles(html)

\* the body of extractArticlesEnhanced on the array of the call
ArrayAfterPasses(array, msg) ==
  AddTextArticles(PushHtml(array, msg.html), TextArticles(msg.text), 1)

InitHandlers ==
  /\ msgs \in [1..MaxMessages -> MessagePool]
  /\ arrays = [m \in 1..MaxMessages |-> <<>>]
  /\ results = [m \in 1..MaxMessages |-> <<>>]
  /\ hpc = [m \in 1..MaxMessages |-> "parsing"]
  /\ IdleFirst
  /\ IdleExtract
  /\ IdleFault
  /\ IdleSimilarity
  /\ IdleStore
  /\ IdleChat
  /\ IdleLifetime
  /\ IdleScrape
  /\ IdleLoop
  /\ IdleMailbox
  /\ IdleEmbeddings
  /\ IdleScheduler

\* the array of the call of handler m after the two passes
ArrayOfHandler(m) == ArrayAfterPasses(arrays[ArrayOfCall(m)], msgs[m])

\* simpleParser resolves: the handler runs processEmail up to the await of
\* extractArticlesEnhanced, whose body has no await and runs to its return
RunToAwait(m) ==
  /\ hpc[m] = "parsing"
  /\ arrays' = [arrays EXCEPT ![ArrayOfCall(m)] = ArrayOfHandler(m)]
  /\ results' = [results EXCEPT ![m] = deduplicateArticles(ArrayOfHandler(m))]
  /\ hpc' = [hpc EXCEPT ![m] = "awaiting"]
  /\ UNCHANGED <<msgs, firstVars, extractVars, faultVars, similarityVars, storeVars, chatVars, lifetimeVars, scrapeVars, loopVars, mailboxVars, embeddingVars, schedulerVars>>

\* the handler resumes with the value the call returned
ResumeWithArticles(m) ==
  /\ hpc[m] = "awaiting"
  /\ hpc' = [hpc EXCEPT ![m] = "extracted"]
  /\ UNCHANGED <<msgs, arrays, results, firstVars, extractVars, faultVars, similarityVars, storeVars, chatVars, lifetimeVars, scrapeVars, loopVars, mailboxVars, embeddingVars, schedulerVars>>

NextHandlers ==
  \E m \in 1..MaxMessages : RunToAwait(m) \/ ResumeWithArticles(m)

(***************************************************************************)
(* Similarity runs: similarity applied to two titles.                      *)
(***************************************************************************)
TitlePool ==
  { "OpenAI Ships New Model", "openai ships new model", "OpenAI Ships",
    "New Model", "Google Buys Small AI Chip Maker",
    "Google Buys Tiny AI Chip Maker", "Maker Google   Buys AI Chip Small",
    "Apple Ships New Phone", "OpenAI Ships Big Model Today", "" }

InitSimilarity ==
  /\ tin \in [str1 : TitlePool, str2 : TitlePool]
  /\ tout = <<0, 1>>
  /\ tpc = "in"
  /\ IdleFirst
  /\ IdleExtract
  /\ IdleFault
  /\ IdleHandlers
  /\ IdleStore
  /\ IdleChat
  /\ IdleLifetime
  /\ IdleScrape
  /\ IdleLoop
  /\ IdleMailbox
  /\ IdleEmbeddings
  /\ IdleScheduler

Compare ==
  /\ tpc = "in"
  /\ tout' = similarity(tin.str1, tin.str2)
  /\ tpc' = "done"
  /\ UNCHANGED <<tin, firstVars, extractVars, faultVars, handlerVars, storeVars, chatVars, lifetimeVars, scrapeVars, loopVars, mailboxVars, embeddingVars, schedulerVars>>

NextSimilarity == Compare

(***************************************************************************)
(* Article store: DatabaseService.createArticle on the articles table of   *)
(* init.sql.  A row is its title and source_url.  PostgreSQL rejects an    *)
(* INSERT ... ON CONFLICT (column) when no unique index or constraint      *)
(* covers the column.                                                      *)
(***************************************************************************)
MaxCalls == 3

Row(t, u) == [title |-> t, source_url |-> u]

\* the sample rows init.sql inserts
SampleRows ==
  << Row("OpenAI Releases GPT-4 Turbo with Improved Performance",
         "https://openai.com/blog/gpt-4-turbo"),
     Row("Meta Introduces Code Llama 70B for Advanced Programming Tasks",
         "https://ai.meta.com/blog/code-llama-70b") >>

\* the columns of articles with a unique index: id, the primary key
ArticlesUniqueColumns == {"id"}

DataPool ==
  { Row("OpenAI Releases GPT-4 Turbo with Improved Performance",
        "https://openai.com/blog/gpt-4-turbo"),
    Row("GPT-4 Turbo is out", "https://openai.com/blog/gpt-4-turbo"),
    Row("Tool Launches New Feature", "https://example.com/tool"),
    Row("Tool Adds A Feature", "https://example.com/tool"),
    Row("Chip Maker Ships New Part", "https://example.com/part"),
    Row("OpenAI Ships New Model", "https://example.com/openai") }

\* the positions of the rows with the source_url
RowsWithUrl(table, url) == {k \in 1..Len(table) : table[k].source_url = url}

\* SELECT * FROM articles WHERE source_url = $1, rows[0]
FirstRowWithUrl(table, url) ==
  table[CHOOSE k \in RowsWithUrl(table, url) : \A j \in RowsWithUrl(table, url) : k <= j]

\* INSERT ... ON CONFLICT (source_url) DO NOTHING RETURNING *: the statement
\* is an error without a unique index on source_url; else the returned rows
\* and the table after it
InsertOrNothing(table, data, uniqueColumns) ==
  IF "source_url" \notin uniqueColumns
    THEN [kind |-> "error", returned |-> <<>>, table |-> table]
  ELSE IF RowsWithUrl(table, data.source_url) # {}
    THEN [kind |-> "ok", returned |-> <<>>, table |-> table]
  ELSE [kind |-> "ok", returned |-> <<data>>, table |-> Append(table, data)]

\* what createArticle returns or throws, after the INSERT
AfterInsert(inserted, data) ==
  IF inserted.kind = "error" THEN Throw
  ELSE IF Len(inserted.returned) = 0
    THEN (IF RowsWithUrl(inserted.table, data.source_url) # {}
            THEN Return(FirstRowWithUrl(inserted.table, data.source_url))
            ELSE Throw)
  ELSE Return(inserted.returned[1])

InitStore ==
  /\ rows = SampleRows
  /\ before = SampleRows
  /\ submitted = <<>>
  /\ created = Fall
  /\ IdleFirst
  /\ IdleExtract
  /\ IdleFault
  /\ IdleHandlers
  /\ IdleSimilarity
  /\ IdleChat
  /\ IdleLifetime
  /\ IdleScrape
  /\ IdleLoop
  /\ IdleMailbox
  /\ IdleEmbeddings
  /\ IdleScheduler

\* one call of createArticle
CreateArticle ==
  /\ Len(submitted) < MaxCalls
  /\ \E data \in DataPool :
       /\ submitted' = Append(submitted, data)
       /\ before' = rows
       /\ rows' = InsertOrNothing(rows, data, ArticlesUniqueColumns).table
       /\ created' = AfterInsert(InsertOrNothing(rows, data, ArticlesUniqueColumns), data)
  /\ UNCHANGED <<firstVars, extractVars, faultVars, handlerVars, similarityVars, chatVars, lifetimeVars, scrapeVars, loopVars, mailboxVars, embeddingVars, schedulerVars>>

NextStore == CreateArticle

(***************************************************************************)
(* Chat requests: POST /api/chat.  The outcomes of the services the route  *)
(* calls are inputs of the run: the OpenSearch client, the two attempts of *)
(* the PostgreSQL text search and the Claude API either throw or return.   *)
(***************************************************************************)
Found(list) == [kind |-> "return", val |-> list]

Failed == [kind |-> "throw", val |-> <<>>]

SearchOutcomes == {Failed, Found(<<>>), Found(<<"a1">>), Found(<<"a2", "a3">>)}

ChatMessages == {"", "   ", "what is new in AI"}

\* OpenSearchService.searchArticles: never throws
osSearchArticles(isConnected, clientSearch) ==
  IF ~isConnected THEN <<>>
  ELSE IF clientSearch.kind = "throw" THEN <<>>
  ELSE clientSearch.val

\* the final fallback of the route, in the catch of step 2
FinalFallback(dbSecond) ==
  IF dbSecond.kind = "throw" THEN Found(<<>>) ELSE Found(dbSecond.val)

\* step 2 of the route without the try around it
searchStepUncaught(hits, dbFirst, dbSecond) ==
  IF Len(hits) = 0 THEN dbFirst ELSE Found(hits)

\* step 2 of the route: relevantArticles
searchStep(hits, dbFirst, dbSecond) ==
  IF Len(hits) = 0
    THEN (IF dbFirst.kind = "throw" THEN FinalFallback(dbSecond) ELSE Found(dbFirst.val))
    ELSE Found(hits)

\* ClaudeService.generateChatResponse: text of Claude or the fallback text,
\* with the context articles as sources; never throws
generateChatResponse(enabled, apiCall, contextArticles) ==
  IF ~enabled THEN [response |-> "fallback", sources |-> contextArticles]
  ELSE IF apiCall = "throw" THEN [response |-> "fallback", sources |-> contextArticles]
  ELSE [response |-> "claude", sources |-> contextArticles]

\* steps 3 and 4 of the route, and its outer catch
RespondWith(found, enabled, apiCall) ==
  IF found.kind = "throw"
    THEN [status |-> 500, response |-> "", sources |-> <<>>, articles_found |-> 0]
    ELSE [status |-> 200,
          response |-> generateChatResponse(enabled, apiCall, found.val).response,
          sources |-> generateChatResponse(enabled, apiCall, found.val).sources,
          articles_found |-> Len(found.val)]

\* !message || message.trim().length === 0
IsBlank(message) == Trim(message) = ""

ChatRoute(q) ==
  IF IsBlank(q.message)
    THEN [status |-> 400, response |-> "", sources |-> <<>>, articles_found |-> 0]
    ELSE RespondWith(searchStep(osSearchArticles(q.isConnected, q.clientSearch),
                                q.dbFirst, q.dbSecond),
                     q.enabled, q.apiCall)

InitChat ==
  /\ chatReq \in [message : ChatMessages, isConnected : BOOLEAN,
                  clientSearch : SearchOutcomes, dbFirst : SearchOutcomes,
                  dbSecond : SearchOutcomes, enabled : BOOLEAN,
                  apiCall : {"throw", "return"}]
  /\ chatRes = [status |-> 0, response |-> "", sources |-> <<>>, articles_found |-> 0]
  /\ chatPc = "in"
  /\ IdleFirst
  /\ IdleExtract
  /\ IdleFault
  /\ IdleHandlers
  /\ IdleSimilarity
  /\ IdleStore
  /\ IdleLifetime
  /\ IdleScrape
  /\ IdleLoop
  /\ IdleMailbox
  /\ IdleEmbeddings
  /\ IdleScheduler

PostChat ==
  /\ chatPc = "in"
  /\ chatRes' = ChatRoute(chatReq)
  /\ chatPc' = "done"
  /\ UNCHANGED <<chatReq, firstVars, extractVars, faultVars, handlerVars,
                 similarityVars, storeVars, lifetimeVars, scrapeVars, loopVars, mailboxVars, embeddingVars, schedulerVars>>

NextChat == PostChat

(***************************************************************************)
(* Article lifetime: articles are created and indexed, time passes in      *)
(* days, cleanupExpiredArticles runs.  An article is its id and the day    *)
(* its expires_at falls on.  A creation here is one that succeeded.        *)
(***************************************************************************)
MaxStored == 2

MaxClock == 8

\* expires_at TIMESTAMP DEFAULT (CURRENT_TIMESTAMP + INTERVAL '7 days')
TtlDays == 7

\* WHERE expires_at > NOW(): the rows the reads and the text search return
UnexpiredRows(rowSet, now) == {r \in rowSet : r.expires_at > now}

\* the documents a search of the index can return: the query has no
\* condition on the age of a document
IndexHits(docs) == docs

\* DELETE FROM articles WHERE expires_at <= NOW()
ExpiredRows(rowSet, now) == {r \in rowSet : r.expires_at <= now}

InitLifetime ==
  /\ clock = 0
  /\ artTable = {}
  /\ osIndex = {}
  /\ purged = {}
  /\ IdleFirst
  /\ IdleExtract
  /\ IdleFault
  /\ IdleHandlers
  /\ IdleSimilarity
  /\ IdleStore
  /\ IdleChat
  /\ IdleScrape
  /\ IdleLoop
  /\ IdleMailbox
  /\ IdleEmbeddings
  /\ IdleScheduler

\* processEmail: db.createArticle, then openSearchService.indexArticle,
\* which does nothing when OpenSearch is not connected
StoreAndIndex ==
  /\ \E id \in 1..MaxStored, isConnected \in BOOLEAN :
       /\ \A r \in artTable : r.id # id
       /\ id \notin purged
       /\ artTable' = artTable \cup {[id |-> id, expires_at |-> clock + TtlDays]}
       /\ osIndex' = IF isConnected
                       THEN osIndex \cup {[id |-> id, expires_at |-> clock + TtlDays]}
                       ELSE osIndex
  /\ UNCHANGED <<clock, purged>>
  /\ UNCHANGED <<firstVars, extractVars, faultVars, handlerVars, similarityVars,
                 storeVars, chatVars, scrapeVars, loopVars, mailboxVars, embeddingVars, schedulerVars>>

\* a day passes
DayPasses ==
  /\ clock < MaxClock
  /\ clock' = clock + 1
  /\ UNCHANGED <<artTable, osIndex, purged>>
  /\ UNCHANGED <<firstVars, extractVars, faultVars, handlerVars, similarityVars,
                 storeVars, chatVars, scrapeVars, loopVars, mailboxVars, embeddingVars, schedulerVars>>

\* cleanupExpiredArticles: deletes rows of the table, nothing of the index
CleanupExpired ==
  /\ ExpiredRows(artTable, clock) # {}
  /\ artTable' = artTable \ ExpiredRows(artTable, clock)
  /\ purged' = purged \cup {r.id : r \in ExpiredRows(artTable, clock)}
  /\ UNCHANGED <<clock, osIndex>>
  /\ UNCHANGED <<firstVars, extractVars, faultVars, handlerVars, similarityVars,
                 storeVars, chatVars, scrapeVars, loopVars, mailboxVars, embeddingVars, schedulerVars>>

NextLifetime == StoreAndIndex \/ DayPasses \/ CleanupExpired

(***************************************************************************)
(* contentScraper: one call of scrapeArticleContent(url, retries) with its *)
(* recursive retries.  The answer of the server to one axios.get is the    *)
(* input of a fetch step: no response, a body that is no string, or a page *)
(* with so many characters of extracted content.                           *)
(***************************************************************************)
MaxRetries == 2

\* extractedContent.length < 100
MinContentLen == 100

PROBLEMATIC_DOMAINS ==
  {"medium.com", "substack.com", "bloomberg.com", "wsj.com", "nytimes.com", "ft.com"}

UrlPool ==
  {"not a url", "ftp://example.com/a", "https://medium.com/p",
   "https://news.wsj.com/a", "https://example.com/a", "http://example.org/b",
   "https://example.com/ft.com", "https://blog.dev/nytimes.com"}

\* new URL(url) in a try, then the protocol is http: or https:
isValidUrl(url) ==
  /\ ParseUrl(url).ok
  /\ ParseUrl(url).scheme \in {"http", "https"}

\* the hostname includes one of the domains; false when new URL throws
isProblematicDomain(url) ==
  /\ ParseUrl(url).ok
  /\ \E domain \in PROBLEMATIC_DOMAINS : Includes(ParseUrl(url).host, domain)

\* a url with what the two checks at the head of a call make of it
CheckedUrl(url) ==
  [href |-> url, valid |-> isValidUrl(url), problematic |-> isProblematicDomain(url)]

NoResult == [settled |-> FALSE]

ScrapeFailure(message) ==
  [settled |-> TRUE, rejected |-> FALSE, success |-> FALSE, content |-> "",
   error |-> message]

ScrapeSuccess ==
  [settled |-> TRUE, rejected |-> FALSE, success |-> TRUE, content |-> "extracted",
   error |-> ""]

\* what one axios.get and the extraction after it come to: a response of
\* status 400 or more, a timeout and a network error all throw in axios.get
Responses ==
  {[data |-> "none", length |-> 0], [data |-> "object", length |-> 0],
   [data |-> "string", length |-> MinContentLen - 1],
   [data |-> "string", length |-> MinContentLen]}

\* the message of the error thrown inside the try, "" when nothing is thrown
Thrown(response) ==
  IF response.data = "none" THEN "Request failed"
  ELSE IF response.data # "string" THEN "Invalid response data"
  ELSE IF response.length < MinContentLen THEN "Insufficient content extracted"
  ELSE ""

\* if (retries > 0) in the catch; the variant retries once more at zero
ShouldRetryAtZero(retries) == retries >= 0

ShouldRetry(retries) == retries > 0

InitScrape ==
  /\ scrapeUrl \in {CheckedUrl(url) : url \in UrlPool}
  /\ firstRetries \in 0..MaxRetries
  /\ retriesLeft = firstRetries
  /\ fetches = 0
  /\ scrapeRes = NoResult
  /\ scrapePc = "call"
  /\ IdleFirst
  /\ IdleExtract
  /\ IdleFault
  /\ IdleHandlers
  /\ IdleSimilarity
  /\ IdleStore
  /\ IdleChat
  /\ IdleLifetime
  /\ IdleLoop
  /\ IdleMailbox
  /\ IdleEmbeddings
  /\ IdleScheduler

\* the head of a call, up to the delay before the request
EnterCall ==
  /\ scrapePc = "call"
  /\ IF ~scrapeUrl.valid
       THEN /\ scrapeRes' = ScrapeFailure("Invalid URL format")
            /\ scrapePc' = "done"
     ELSE IF scrapeUrl.problematic
       THEN /\ scrapeRes' = ScrapeFailure("Domain known to be problematic for scraping")
            /\ scrapePc' = "done"
     ELSE /\ scrapeRes' = scrapeRes
          /\ scrapePc' = "fetch"
  /\ UNCHANGED <<scrapeUrl, firstRetries, retriesLeft, fetches>>
  /\ UNCHANGED <<firstVars, extractVars, faultVars, handlerVars, similarityVars,
                 storeVars, chatVars, lifetimeVars, loopVars, mailboxVars, embeddingVars, schedulerVars>>

\* axios.get and the rest of the call: the result, or the catch with the
\* recursive call for the retry
FetchPage ==
  /\ scrapePc = "fetch"
  /\ fetches' = fetches + 1
  /\ \E response \in Responses :
       IF Thrown(response) = ""
         THEN /\ scrapeRes' = ScrapeSuccess
              /\ scrapePc' = "done"
              /\ retriesLeft' = retriesLeft
       ELSE IF ShouldRetry(retriesLeft)
         THEN /\ scrapeRes' = scrapeRes
              /\ scrapePc' = "call"
              /\ retriesLeft' = retriesLeft - 1
       ELSE /\ scrapeRes' = ScrapeFailure(Thrown(response))
            /\ scrapePc' = "done"
            /\ retriesLeft' = retriesLeft
  /\ UNCHANGED <<scrapeUrl, firstRetries>>
  /\ UNCHANGED <<firstVars, extractVars, faultVars, handlerVars, similarityVars,
                 storeVars, chatVars, lifetimeVars, loopVars, mailboxVars, embeddingVars, schedulerVars>>

NextScrape == EnterCall \/ FetchPage

(***************************************************************************)
(* processEmail, the loop over the articles of one message in steps: each  *)
(* article is scraped, embedded, saved and indexed, and each of the four   *)
(* services answers or throws.  An article is its position in the list.    *)
(***************************************************************************)
MaxBatch == 2

\* scrapedResult.content.length > 100
KeepContentOver == 100

\* what the await of scrapeArticleContent gives: a result, or a rejection
Scraped ==
  {[rejected |-> FALSE, success |-> TRUE, length |-> KeepContentOver + 1],
   [rejected |-> FALSE, success |-> TRUE, length |-> KeepContentOver],
   [rejected |-> FALSE, success |-> FALSE, length |-> 0],
   [rejected |-> TRUE, success |-> FALSE, length |-> 0]}

\* articleContent after the inner try: the scraped content or ''
ContentKept(scraped) ==
  IF ~scraped.rejected /\ scraped.success /\ scraped.length > KeepContentOver
    THEN "content" ELSE ""

\* the loop without the try around its body: an error ends it
AfterUncaught(i, n) == [artIdx |-> i, saveStep |-> "done"]

\* the catch of the loop body logs the error; the loop goes on
AfterCaught(i, n) ==
  IF i + 1 > n THEN [artIdx |-> i + 1, saveStep |-> "done"]
  ELSE [artIdx |-> i + 1, saveStep |-> "scrape"]

\* the end of the loop body
AfterBody(i, n) ==
  IF i + 1 > n THEN [artIdx |-> i + 1, saveStep |-> "done"]
  ELSE [artIdx |-> i + 1, saveStep |-> "scrape"]

InitSaveLoop ==
  /\ batchSize \in 1..MaxBatch
  /\ artIdx = 1
  /\ saveStep = "scrape"
  /\ articleContent = ""
  /\ scrapeFailed = {}
  /\ embedCalls = {}
  /\ createCalls = {}
  /\ dbRows = {}
  /\ indexedIds = {}
  /\ savedCount = 0
  /\ IdleFirst
  /\ IdleExtract
  /\ IdleFault
  /\ IdleHandlers
  /\ IdleSimilarity
  /\ IdleStore
  /\ IdleChat
  /\ IdleLifetime
  /\ IdleScrape
  /\ IdleMailbox
  /\ IdleEmbeddings
  /\ IdleScheduler

\* Step 1: the inner try around scrapeArticleContent
ScrapeStep ==
  /\ saveStep = "scrape"
  /\ \E scraped \in Scraped :
       /\ articleContent' = ContentKept(scraped)
       /\ scrapeFailed' = IF scraped.rejected \/ ~scraped.success
                            THEN scrapeFailed \cup {artIdx} ELSE scrapeFailed
  /\ saveStep' = "embed"
  /\ UNCHANGED <<batchSize, artIdx, embedCalls, createCalls, dbRows, indexedIds,
                 savedCount>>
  /\ UNCHANGED <<firstVars, extractVars, faultVars, handlerVars, similarityVars,
                 storeVars, chatVars, lifetimeVars, scrapeVars, mailboxVars, embeddingVars, schedulerVars>>

\* Step 2: generateArticleEmbeddings with content: articleContent || undefined
EmbedStep ==
  /\ saveStep = "embed"
  /\ embedCalls' = embedCalls \cup {[article |-> artIdx, content |-> articleContent]}
  /\ \E thrown \in BOOLEAN :
       IF thrown
         THEN /\ artIdx' = AfterCaught(artIdx, batchSize).artIdx
              /\ saveStep' = AfterCaught(artIdx, batchSize).saveStep
         ELSE /\ artIdx' = artIdx
              /\ saveStep' = "save"
  /\ UNCHANGED <<batchSize, articleContent, scrapeFailed, createCalls, dbRows,
                 indexedIds, savedCount>>
  /\ UNCHANGED <<firstVars, extractVars, faultVars, handlerVars, similarityVars,
                 storeVars, chatVars, lifetimeVars, scrapeVars, mailboxVars, embeddingVars, schedulerVars>>

\* Step 3: db.createArticle with content: articleContent || undefined
SaveStep ==
  /\ saveStep = "save"
  /\ createCalls' = createCalls \cup {[article |-> artIdx, content |-> articleContent]}
  /\ \E thrown \in BOOLEAN :
       IF thrown
         THEN /\ artIdx' = AfterCaught(artIdx, batchSize).artIdx
              /\ saveStep' = AfterCaught(artIdx, batchSize).saveStep
              /\ dbRows' = dbRows
         ELSE /\ artIdx' = artIdx
              /\ saveStep' = "index"
              /\ dbRows' = dbRows \cup {[article |-> artIdx, content |-> articleContent]}
  /\ UNCHANGED <<batchSize, articleContent, scrapeFailed, embedCalls, indexedIds,
                 savedCount>>
  /\ UNCHANGED <<firstVars, extractVars, faultVars, handlerVars, similarityVars,
                 storeVars, chatVars, lifetimeVars, scrapeVars, mailboxVars, embeddingVars, schedulerVars>>

\* Step 4: openSearchService.indexArticle, then savedCount++
IndexStep ==
  /\ saveStep = "index"
  /\ \E thrown \in BOOLEAN :
       IF thrown
         THEN /\ artIdx' = AfterCaught(artIdx, batchSize).artIdx
              /\ saveStep' = AfterCaught(artIdx, batchSize).saveStep
              /\ indexedIds' = indexedIds
              /\ savedCount' = savedCount
         ELSE /\ artIdx' = AfterBody(artIdx, batchSize).artIdx
              /\ saveStep' = AfterBody(artIdx, batchSize).saveStep
              /\ indexedIds' = indexedIds \cup {artIdx}
              /\ savedCount' = savedCount + 1
  /\ UNCHANGED <<batchSize, articleContent, scrapeFailed, embedCalls, createCalls,
                 dbRows>>
  /\ UNCHANGED <<firstVars, extractVars, faultVars, handlerVars, similarityVars,
                 storeVars, chatVars, lifetimeVars, scrapeVars, mailboxVars, embeddingVars, schedulerVars>>

NextSaveLoop == ScrapeStep \/ EmbedStep \/ SaveStep \/ IndexStep

(***************************************************************************)
(* processEmails: the promise of one run.  The search found so many        *)
(* messages; the fetch emits them one by one, and the body handler of each *)
(* is an async function that awaits simpleParser and then processEmail.    *)
(***************************************************************************)
MaxFetched == 3

InitMailbox ==
  /\ fetchCount \in 0..MaxFetched
  /\ emitted = 0
  /\ bodyHandler = [m \in 1..MaxFetched |-> "none"]
  /\ imapEnded = FALSE
  /\ resolved = FALSE
  /\ IdleFirst
  /\ IdleExtract
  /\ IdleFault
  /\ IdleHandlers
  /\ IdleSimilarity
  /\ IdleStore
  /\ IdleChat
  /\ IdleLifetime
  /\ IdleScrape
  /\ IdleLoop
  /\ IdleEmbeddings
  /\ IdleScheduler

\* the search callback with no results: imap.end() and resolve()
OnNoResults ==
  /\ fetchCount = 0
  /\ ~resolved
  /\ imapEnded' = TRUE
  /\ resolved' = TRUE
  /\ UNCHANGED <<fetchCount, emitted, bodyHandler>>
  /\ UNCHANGED <<firstVars, extractVars, faultVars, handlerVars, similarityVars,
                 storeVars, chatVars, lifetimeVars, scrapeVars, loopVars, embeddingVars, schedulerVars>>

\* fetch.on('message') and msg.on('body'): the handler runs up to its first
\* await
OnMessageBody ==
  /\ emitted < fetchCount
  /\ emitted' = emitted + 1
  /\ bodyHandler' = [bodyHandler EXCEPT ![emitted + 1] = "parsing"]
  /\ UNCHANGED <<fetchCount, imapEnded, resolved>>
  /\ UNCHANGED <<firstVars, extractVars, faultVars, handlerVars, similarityVars,
                 storeVars, chatVars, lifetimeVars, scrapeVars, loopVars, embeddingVars, schedulerVars>>

\* simpleParser settles: processEmail is called, or the catch logs the error
ParserSettles ==
  /\ \E m \in 1..MaxFetched, parsedWell \in BOOLEAN :
       /\ bodyHandler[m] = "parsing"
       /\ bodyHandler' = [bodyHandler EXCEPT
                            ![m] = IF parsedWell THEN "processing" ELSE "failed"]
  /\ UNCHANGED <<fetchCount, emitted, imapEnded, resolved>>
  /\ UNCHANGED <<firstVars, extractVars, faultVars, handlerVars, similarityVars,
                 storeVars, chatVars, lifetimeVars, scrapeVars, loopVars, embeddingVars, schedulerVars>>

\* processEmail settles: the handler is over
ProcessEmailSettles ==
  /\ \E m \in 1..MaxFetched :
       /\ bodyHandler[m] = "processing"
       /\ bodyHandler' = [bodyHandler EXCEPT ![m] = "finished"]
  /\ UNCHANGED <<fetchCount, emitted, imapEnded, resolved>>
  /\ UNCHANGED <<firstVars, extractVars, faultVars, handlerVars, similarityVars,
                 storeVars, chatVars, lifetimeVars, scrapeVars, loopVars, embeddingVars, schedulerVars>>

\* fetch.once('end'), after the last message was emitted: imap.end() and
\* resolve()
OnFetchEnd ==
  /\ fetchCount > 0
  /\ emitted = fetchCount
  /\ ~resolved
  /\ imapEnded' = TRUE
  /\ resolved' = TRUE
  /\ UNCHANGED <<fetchCount, emitted, bodyHandler>>
  /\ UNCHANGED <<firstVars, extractVars, faultVars, handlerVars, similarityVars,
                 storeVars, chatVars, lifetimeVars, scrapeVars, loopVars, embeddingVars, schedulerVars>>

NextMailbox ==
  OnNoResults \/ OnMessageBody \/ ParserSettles \/ ProcessEmailSettles \/ OnFetchEnd

(***************************************************************************)
(* EmbeddingsService: concurrent calls of generateEmbedding and the load   *)
(* of the model.  A call runs to its first await in one step; the load     *)
(* settles in a step of its own, and a caller that awaited it goes on in a *)
(* later step with what the promise settled to.                            *)
(***************************************************************************)
MaxCallers == 4

MaxLoads == 3

Callers == 1..MaxCallers

\* initializePipeline without the check of initializationPromise
NoInitializationKept(promise) == FALSE

\* if (this.initializationPromise)
HasInitialization(promise) == promise # "null"

\* doInitialization before its first await: it returns at once, or it sets
\* isLoading and starts the load
DoInitialization(loading, loaded) ==
  IF loading \/ loaded # "null" THEN "returns" ELSE "loads"

\* where a caller is after awaiting a promise in this state
AfterAwait(promise) ==
  IF promise = "pending" THEN "waiting"
  ELSE IF promise = "fulfilled" THEN "go"
  ELSE "threw"

InitEmbeddings ==
  /\ pipeline = "null"
  /\ isLoading = FALSE
  /\ initializationPromise = "null"
  /\ callerPc = [c \in Callers |-> "idle"]
  /\ activeLoads = 0
  /\ loadStarts = 0
  /\ loadedAt = 0
  /\ IdleFirst
  /\ IdleExtract
  /\ IdleFault
  /\ IdleHandlers
  /\ IdleSimilarity
  /\ IdleStore
  /\ IdleChat
  /\ IdleLifetime
  /\ IdleScrape
  /\ IdleLoop
  /\ IdleMailbox
  /\ IdleScheduler

\* generateEmbedding up to the await of initializePipeline
CallEmbedding ==
  /\ \E c \in Callers :
       /\ callerPc[c] = "idle"
       /\ IF pipeline # "null"
            THEN /\ callerPc' = [callerPc EXCEPT ![c] = "go"]
                 /\ UNCHANGED <<isLoading, initializationPromise, activeLoads, loadStarts>>
          ELSE IF HasInitialization(initializationPromise)
            THEN /\ callerPc' = [callerPc EXCEPT ![c] = AfterAwait(initializationPromise)]
                 /\ UNCHANGED <<isLoading, initializationPromise, activeLoads, loadStarts>>
          ELSE IF DoInitialization(isLoading, pipeline) = "loads"
            THEN /\ loadStarts < MaxLoads
                 /\ isLoading' = TRUE
                 /\ initializationPromise' = "pending"
                 /\ activeLoads' = activeLoads + 1
                 /\ loadStarts' = loadStarts + 1
                 /\ callerPc' = [callerPc EXCEPT ![c] = "waiting"]
          ELSE /\ initializationPromise' = "fulfilled"
               /\ callerPc' = [callerPc EXCEPT ![c] = "go"]
               /\ UNCHANGED <<isLoading, activeLoads, loadStarts>>
  /\ UNCHANGED <<pipeline, loadedAt>>
  /\ UNCHANGED <<firstVars, extractVars, faultVars, handlerVars, similarityVars,
                 storeVars, chatVars, lifetimeVars, scrapeVars, loopVars, mailboxVars, schedulerVars>>

\* the load of the model settles: doInitialization goes on after its await,
\* its promise settles and with it the await of every caller waiting for it
LoadSettles ==
  /\ activeLoads > 0
  /\ \E loadedWell \in BOOLEAN :
       /\ pipeline' = IF loadedWell THEN "model" ELSE "null"
       /\ loadedAt' = IF loadedWell THEN loadStarts ELSE loadedAt
       /\ initializationPromise' =
            IF initializationPromise # "pending" THEN initializationPromise
            ELSE IF loadedWell THEN "fulfilled" ELSE "rejected"
       /\ callerPc' = [c \in Callers |->
                        IF callerPc[c] # "waiting" THEN callerPc[c]
                        ELSE IF loadedWell THEN "go" ELSE "threw"]
  /\ isLoading' = FALSE
  /\ activeLoads' = activeLoads - 1
  /\ UNCHANGED loadStarts
  /\ UNCHANGED <<firstVars, extractVars, faultVars, handlerVars, similarityVars,
                 storeVars, chatVars, lifetimeVars, scrapeVars, loopVars, mailboxVars, schedulerVars>>

\* generateEmbedding after the await: the check of this.pipeline and the
\* embedding, or the catch
CallerGoesOn ==
  /\ \E c \in Callers :
       /\ callerPc[c] \in {"go", "threw"}
       /\ callerPc' = [callerPc EXCEPT
                         ![c] = IF callerPc[c] = "go" /\ pipeline # "null"
                                  THEN "embedded" ELSE "failed"]
  /\ UNCHANGED <<pipeline, isLoading, initializationPromise, activeLoads, loadStarts,
                 loadedAt>>
  /\ UNCHANGED <<firstVars, extractVars, faultVars, handlerVars, similarityVars,
                 storeVars, chatVars, lifetimeVars, scrapeVars, loopVars, mailboxVars, schedulerVars>>

\* the call is over; its caller may call again
CallReturns ==
  /\ \E c \in Callers :
       /\ callerPc[c] \in {"embedded", "failed"}
       /\ callerPc' = [callerPc EXCEPT ![c] = "idle"]
  /\ UNCHANGED <<pipeline, isLoading, initializationPromise, activeLoads, loadStarts,
                 loadedAt>>
  /\ UNCHANGED <<firstVars, extractVars, faultVars, handlerVars, similarityVars,
                 storeVars, chatVars, lifetimeVars, scrapeVars, loopVars, mailboxVars, schedulerVars>>

NextEmbeddings == CallEmbedding \/ LoadSettles \/ CallerGoesOn \/ CallReturns

(***************************************************************************)
(* SchedulerService: start(), stop() and getStatus() called in any order,  *)
(* under one value of NODE_ENV.  The two cron tasks are created with       *)
(* scheduled: false, so that neither runs before start().                  *)
(***************************************************************************)
MaxSchedulerCalls == 4

\* the values of process.env.NODE_ENV, "" when it is not set
NodeEnvs == {"", "development", "production", "test"}

NoStatus == [reported |-> FALSE]

\* environment: process.env.NODE_ENV || 'development'
ReportedEnvironment(env) == IF env = "" THEN "development" ELSE env

\* scheduled_jobs_active: !isDev
ReportedActive(env) == env # "development"

InitScheduler ==
  /\ nodeEnv \in NodeEnvs
  /\ processingRuns = FALSE
  /\ cleanupRuns = FALSE
  /\ schedulerCalls = <<>>
  /\ statusOut = NoStatus
  /\ IdleFirst
  /\ IdleExtract
  /\ IdleFault
  /\ IdleHandlers
  /\ IdleSimilarity
  /\ IdleStore
  /\ IdleChat
  /\ IdleLifetime
  /\ IdleScrape
  /\ IdleLoop
  /\ IdleMailbox
  /\ IdleEmbeddings

\* start(): nothing in development, else both tasks are started
StartJobs ==
  /\ Len(schedulerCalls) < MaxSchedulerCalls
  /\ schedulerCalls' = Append(schedulerCalls, "start")
  /\ processingRuns' = IF nodeEnv = "development" THEN processingRuns ELSE TRUE
  /\ cleanupRuns' = IF nodeEnv = "development" THEN cleanupRuns ELSE TRUE
  /\ statusOut' = NoStatus
  /\ UNCHANGED nodeEnv
  /\ UNCHANGED <<firstVars, extractVars, faultVars, handlerVars, similarityVars,
                 storeVars, chatVars, lifetimeVars, scrapeVars, loopVars, mailboxVars,
                 embeddingVars>>

\* stop(): both tasks are stopped
StopJobs ==
  /\ Len(schedulerCalls) < MaxSchedulerCalls
  /\ schedulerCalls' = Append(schedulerCalls, "stop")
  /\ processingRuns' = FALSE
  /\ cleanupRuns' = FALSE
  /\ statusOut' = NoStatus
  /\ UNCHANGED nodeEnv
  /\ UNCHANGED <<firstVars, extractVars, faultVars, handlerVars, similarityVars,
                 storeVars, chatVars, lifetimeVars, scrapeVars, loopVars, mailboxVars,
                 embeddingVars>>

\* getStatus(): the environment and scheduled_jobs_active of its answer
GetStatus ==
  /\ Len(schedulerCalls) < MaxSchedulerCalls
  /\ schedulerCalls' = Append(schedulerCalls, "getStatus")
  /\ statusOut' = [reported |-> TRUE,
                   environment |-> ReportedEnvironment(nodeEnv),
                   scheduled_jobs_active |-> ReportedActive(nodeEnv)]
  /\ UNCHANGED <<nodeEnv, processingRuns, cleanupRuns>>
  /\ UNCHANGED <<firstVars, extractVars, faultVars, handlerVars, similarityVars,
                 storeVars, chatVars, lifetimeVars, scrapeVars, loopVars, mailboxVars,
                 embeddingVars>>

NextScheduler == StartJobs \/ StopJobs \/ GetStatus

vars ==
  <<rin, rout, rpc, articles, unique, kept, rerun, dpc, stext, sverdict, spc,
    cin, cout, cpc, email, dayHours, candidates, extracted, saved, cursor, ppc,
    xin, xout, xpc, fin, fout, fpc,
    msgs, arrays, results, hpc,
    tin, tout, tpc,
    rows, before, submitted, created,
    chatReq, chatRes, chatPc,
    clock, artTable, osIndex, purged,
    scrapeUrl, firstRetries, retriesLeft, fetches, scrapeRes, scrapePc,
    batchSize, artIdx, saveStep, articleContent, scrapeFailed, embedCalls, createCalls, dbRows, indexedIds, savedCount,
    fetchCount, emitted, bodyHandler, imapEnded, resolved,
    pipeline, isLoading, initializationPromise, callerPc, activeLoads, loadStarts, loadedAt,
    nodeEnv, processingRuns, cleanupRuns, schedulerCalls, statusOut>>

Spec == InitEmail /\ [][Next]_vars

SpecResolve == InitResolve /\ [][NextResolve]_vars

SpecDedup == InitDedup /\ [][NextDedup]_vars

SpecSponsor == InitSponsor /\ [][NextSponsor]_vars

SpecSummary == InitSummary /\ [][NextSummary]_vars

SpecOrdinaryDay == InitOrdinaryDay /\ [][Next]_vars

SpecExtract == InitExtract /\ [][NextExtract]_vars

SpecBlocks == InitBlocks /\ [][NextExtract]_vars

SpecTextPass == InitTextPass /\ [][NextExtract]_vars

SpecFault == InitFault /\ [][NextFault]_vars

SpecHandlers == InitHandlers /\ [][NextHandlers]_vars

SpecSimilarity == InitSimilarity /\ [][NextSimilarity]_vars

SpecStore == InitStore /\ [][NextStore]_vars

SpecChat == InitChat /\ [][NextChat]_vars

SpecLifetime == InitLifetime /\ [][NextLifetime]_vars

SpecScrape == InitScrape /\ [][NextScrape]_vars

\* the event loop runs every continuation that is ready: timers fire and
\* axios.get settles within its timeout
SpecScrapeFair == InitScrape /\ [][NextScrape]_vars /\ WF_vars(NextScrape)

SpecSaveLoop == InitSaveLoop /\ [][NextSaveLoop]_vars

SpecMailbox == InitMailbox /\ [][NextMailbox]_vars

SpecEmbeddings == InitEmbeddings /\ [][NextEmbeddings]_vars

SpecScheduler == InitScheduler /\ [][NextScheduler]_vars

(***************************************************************************)
(* Properties of the deduplicator.                                         *)
(***************************************************************************)
\* title similarity above 0.8, from the similarity metric
NearDuplicate(a, b) ==
  LET f == similarity(a.title, b.title)
  IN f[1] * ThresholdDen > ThresholdNum * f[2]

\* C1: deduplication is idempotent: applied to its own output it returns
\* the same list, same candidates in the same order
C1_DedupIdempotent == dpc = "twice" => rerun = unique

\* a run in which deduplication dropped a candidate and kept several
C1_Witness ==
  /\ dpc = "twice"
  /\ Len(unique) >= 2
  /\ Len(unique) < Len(articles)

\* C7 as stated: no two candidates of the output are near-duplicates, and of
\* two near-duplicate candidates of the input the retained one is the earlier
C7_RetainedIsFirst ==
  dpc # "in" =>
    /\ \A i, j \in 1..Len(unique) : i # j => ~NearDuplicate(unique[i], unique[j])
    /\ \A i, j \in 1..Len(articles) :
         (i < j /\ NearDuplicate(articles[i], articles[j]))
           => ~(j \in kept /\ i \notin kept)

\* C7 amended: no two candidates of the output are near-duplicates; a candidate
\* with no earlier near-duplicate and no earlier candidate of the same key is
\* retained; every later near-duplicate of a retained candidate is dropped;
\* and the two example titles leave only the first
C7_FirstSeenWins ==
  dpc # "in" =>
    /\ \A i, j \in 1..Len(unique) : i # j => ~NearDuplicate(unique[i], unique[j])
    /\ \A j \in 1..Len(articles) :
         (\A i \in 1..(j - 1) : /\ ~NearDuplicate(articles[i], articles[j])
                                 /\ DedupKey(articles[i]) # DedupKey(articles[j]))
           => j \in kept
    /\ \A i, j \in 1..Len(articles) :
         (i < j /\ NearDuplicate(articles[i], articles[j]) /\ i \in kept)
           => j \notin kept
    /\ unique = [k \in 1..Len(unique) |->
                   articles[CHOOSE i \in kept : Cardinality({h \in kept : h < i}) = k - 1]]
    /\ articles = <<Art("OpenAI Ships New Model", "https://example.com/a"),
                    Art("OpenAI ships new model today", "https://example.com/b")>>
         => unique = <<Art("OpenAI Ships New Model", "https://example.com/a")>>

\* the example: the two OpenAI titles, deduplicated to the first
C7_Witness ==
  /\ dpc = "once"
  /\ articles = <<Art("OpenAI Ships New Model", "https://example.com/a"),
                  Art("OpenAI ships new model today", "https://example.com/b")>>
  /\ Len(unique) = 1

(***************************************************************************)
(* Properties of the URL resolver.                                         *)
(***************************************************************************)
\* a destination with the tracking parameters left out and one trailing
\* slash removed, put together from its parts
Canon(d) ==
  LET keep == SelectSeq(d.params, LAMBDA p : ParamName(p) \notin trackingParams)
      text == d.scheme \o d.host \o d.path
                \o (IF Len(keep) = 0 THEN "" ELSE "?" \o Join(keep, "&"))
  IN IF Ch(text, Len(text)) = "/" THEN SubSeq(text, 1, Len(text) - 1) ELSE text

\* the href stands for a destination given by its parts
HasDest(in) == in.kind \in {"direct", "single", "double"} /\ in.dest # <<>>

\* C2: every URL the resolver returns is an absolute http(s) URL, is not a
\* tracking-redirect URL and contains no blocklisted entry
C2_ReturnedUrlNotBlocklisted ==
  (rpc = "done" /\ rout.kind = "return" /\ rout.val # "") =>
    /\ HttpAt(rout.val, 1)
    /\ ~Includes(rout.val, TRACKING_URL_PREFIX)
    /\ \A domain \in SKIP_DOMAINS :
         ~Includes(ToLowerCase(rout.val), ToLowerCase(domain))

\* C5 as stated: an href that is the destination D, or a tracking redirect
\* whose segment is D percent-encoded once or twice, resolves to D without
\* its tracking parameters and without one trailing slash
C5_ResolvesToDestination ==
  (rpc = "done" /\ HasDest(rin)) => rout = Return(Canon(rin.dest))

\* C5 amended: the same, for a tracking redirect whose segment is D encoded
\* twice, or encoded once when D holds no percent escape, and for an href
\* that is D itself; the redirect encoding
\* https://example.com/article?utm_source=x resolves to
\* https://example.com/article
C5_ResolvesDecodableDestination ==
  /\ (rpc = "done" /\ HasDest(rin)
        /\ (rin.kind = "single" => ~Includes(DestText(rin.dest), "%")))
       => rout = Return(Canon(rin.dest))
  /\ (rpc = "done"
        /\ rin.href = TrackingHref("https%3A%2F%2Fexample.com%2Farticle%3Futm_source%3Dx"))
       => rout = Return("https://example.com/article")

\* the example redirect, resolved
C5_Witness ==
  /\ rpc = "done"
  /\ rin.kind = "single"
  /\ HasDest(rin)
  /\ DestText(rin.dest) = "https://example.com/article?utm_source=x"
  /\ rin.href = TrackingHref("https%3A%2F%2Fexample.com%2Farticle%3Futm_source%3Dx")
  /\ rout.val = "https://example.com/article"

\* C6: the resolver never throws, and a tracking redirect whose segment does
\* not decode, or holds no http(s) destination, resolves to the sentinel ""
C6_ResolverTotal ==
  rpc = "done" =>
    /\ rout.kind = "return"
    /\ rin.kind = "broken" => rout.val = ""

\* a redirect whose segment has a malformed percent escape, resolved
C6_Witness ==
  /\ rpc = "done"
  /\ rin.href = TrackingHref("https%3A%2F%2Fexample.com%2F%zz")
  /\ decodeURIComponent("https%3A%2F%2Fexample.com%2F%zz").kind = "throw"
  /\ rout = Return("")

(***************************************************************************)
(* Properties of the sponsor check.                                        *)
(***************************************************************************)
\* C3: the sponsor check rejects a text exactly when one of its pieces holds
\* a sponsor marker and none holds a read-time marker; "Sponsored by Acme"
\* alone is rejected, and with "(3 minute read)" after it is accepted
C3_SponsoredUnlessReadTime ==
  spc = "done" =>
    /\ sverdict <=> /\ \E k \in 1..Len(stext.pieces) : stext.pieces[k].sponsor
                    /\ \A k \in 1..Len(stext.pieces) : ~stext.pieces[k].readTime
    /\ stext.text = "Sponsored by Acme" => sverdict
    /\ stext.text = "Sponsored by Acme (3 minute read)" => ~sverdict

\* the example with the read-time marker, checked
C3_Witness ==
  /\ spc = "done"
  /\ stext.text = "Sponsored by Acme (3 minute read)"
  /\ ~sverdict

(***************************************************************************)
(* Properties of the summary normalizer.                                   *)
(***************************************************************************)
\* the text cleanSummary returns when nothing is cut: the first complete
\* sentences of the cleaned text, or the cleaned text when it has none
UncutOf(cleaned, sentences) ==
  IF Len(sentences) > 0 THEN FirstSentences(sentences) ELSE cleaned

UncutOfCleaned(cleaned) == UncutOf(cleaned, extractCompleteSentences(cleaned))

UncutSummary(text) ==
  IF text = "" THEN "" ELSE UncutOfCleaned(CleanedOf(text))

EndsWithEllipsis(s) == Len(s) >= 3 /\ SubSeq(s, Len(s) - 2, Len(s)) = "..."

\* out is a beginning of uncut followed by the ellipsis marker "..."
CutShort(out, uncut) ==
  /\ EndsWithEllipsis(out)
  /\ Len(out) - 3 < Len(uncut)
  /\ SubSeq(out, 1, Len(out) - 3) = SubSeq(uncut, 1, Len(out) - 3)

SameOrCutShort(out, uncut) == out # uncut => CutShort(out, uncut)

\* C4: cleanSummary returns at most 500 characters, and a summary that was
\* obtained by cutting the text short is a beginning of that text followed
\* by the ellipsis marker "..."
C4_SummaryBounded ==
  cpc = "done" =>
    /\ Len(cout) <= 500
    /\ SameOrCutShort(cout, UncutSummary(cin))

\* two long sentences, cut at the limit
C4_Witness ==
  /\ cpc = "done"
  /\ cin = LongSentence \o " " \o LongQuote
  /\ Len(UncutSummary(cin)) > 500
  /\ Len(cout) = 500
  /\ EndsWithEllipsis(cout)

(***************************************************************************)
(* Properties of processEmail.                                             *)
(***************************************************************************)
\* C8: a message older than the 24-hour freshness window, such as one 48
\* hours old, yields no candidates whatever its content: processing ends
\* early, at one of the two checks before the extraction, no extraction is
\* run and nothing is saved
C8_StaleYieldsNothing ==
  (ppc # "in" /\ email.age > 24) =>
    /\ ppc \in {"stale", "skipped"}
    /\ ~extracted
    /\ candidates = <<>>
    /\ saved = <<>>

\* the HTML body is one tracking anchor in a table cell with the text of the
\* scenario, the plain text holds no article, and the extraction has run
ToolScenario ==
  /\ extracted
  /\ Len(email.html) = 1
  /\ Includes(email.html[1].href, TRACKING_URL_PREFIX)
  /\ email.html[1].cells = <<ToolCellText>>
  /\ email.text = Filler

\* C9: an HTML body of one tracking anchor in a table cell with the text
\* "Tool Launches New Feature (4 minute read). Also: signup link." yields
\* exactly one candidate, titled "Tool Launches New Feature", with a read
\* time of 4 minutes, the resolved URL, and a summary without "signup link"
C9_ToolScenarioCandidate ==
  ToolScenario =>
    /\ Len(candidates) = 1
    /\ candidates[1].title = "Tool Launches New Feature"
    /\ candidates[1].readTime = "4 min"
    /\ candidates[1].url = "https://example.com/tool"
    /\ ~Includes(candidates[1].summary, "signup link")

\* C10: every candidate of the final list, from the HTML pass or from the
\* text pass, has a summary of at most 500 characters
C10_CandidateSummaryBounded ==
  extracted => \A i \in 1..Len(candidates) : Len(candidates[i].summary) <= 500

\* C11: every candidate of the HTML pass and of the text pass, and so every
\* candidate of the final list, has a title of 10 to 200 characters
C11_CandidateTitleBounded ==
  extracted =>
    \A i \in 1..Len(candidates) :
      Len(candidates[i].title) >= 10 /\ Len(candidates[i].title) <= 200

(***************************************************************************)
(* Properties of extractArticlesEnhanced.                                  *)
(***************************************************************************)
\* C12: the list returned for a message is the deduplicator applied once to
\* the HTML candidates followed by the text candidates, so a text candidate
\* is missing only if that deduplication drops it
C12_DedupOfCombinedPool ==
  xpc = "done" => xout.final = deduplicateArticles(xout.html \o xout.text)

\* a is b with some elements removed
RECURSIVE IsSubsequence(_, _, _, _)
IsSubsequence(a, i, b, j) ==
  IF i > Len(a) THEN TRUE
  ELSE IF j > Len(b) THEN FALSE
  ELSE IF a[i] = b[j] THEN IsSubsequence(a, i + 1, b, j + 1)
  ELSE IsSubsequence(a, i, b, j + 1)

\* the anchors of the document an article can come from: those that resolve
\* to its url
SitesOf(article, html) ==
  {i \in 1..Len(html) : extractRealUrl(html[i].href).val = article.url}

\* the articles of the list follow the order of their anchors in the document
InDocumentOrder(list, html) ==
  \A p, q \in 1..Len(list) :
    p < q => \E i \in SitesOf(list[p], html), j \in SitesOf(list[q], html) : i <= j

\* the articles of the result that the HTML pass emitted
FromHtml(final, htmlArticles) ==
  SelectSeq(final, LAMBDA a : \E k \in 1..Len(htmlArticles) : htmlArticles[k] = a)

\* the text articles follow the order of their title lines in the text
InScanOrder(list, text) ==
  \A p, q \in 1..Len(list) :
    p < q => IndexOf(text, list[p].title) < IndexOf(text, list[q].title)

\* C13 as stated: the result is the HTML candidates followed by the text
\* candidates with some of them removed, and its HTML candidates are in the
\* order of their anchors in the document
C13_DocumentOrder ==
  xpc = "done" =>
    /\ IsSubsequence(xout.final, 1, xout.html \o xout.text, 1)
    /\ InDocumentOrder(FromHtml(xout.final, xout.html), xin.html)

\* C13 amended: the result is the candidates of the primary sweep, of the
\* table-cell sweep, of the strong sweep and of the text pass, in this order,
\* with some of them removed; the candidates of each sweep are in the order
\* of their anchors in the document, those of the text pass in scan order
C13_SweepOrder ==
  xpc = "done" =>
    /\ IsSubsequence(xout.final, 1,
                     PrimarySweep(xin.html, 1) \o TableSweep(xin.html, 1)
                       \o StrongSweep(xin.html, 1) \o xout.text, 1)
    /\ InDocumentOrder(PrimarySweep(xin.html, 1), xin.html)
    /\ InDocumentOrder(TableSweep(xin.html, 1), xin.html)
    /\ InDocumentOrder(StrongSweep(xin.html, 1), xin.html)
    /\ InScanOrder(xout.text, xin.text)

\* a run that keeps an HTML candidate and a text candidate and drops another
C13_Witness ==
  /\ xpc = "done"
  /\ Len(xout.final) >= 3
  /\ Len(xout.final) < Len(xout.html) + Len(xout.text)
  /\ \E k \in 1..Len(xout.final) : xout.final[k].readTime = "3 min"
  /\ Len(PrimarySweep(xin.html, 1)) = 1
  /\ Len(TableSweep(xin.html, 1)) = 1

(***************************************************************************)
(* Properties of the message handler with a failing anchor.                *)
(***************************************************************************)
\* the document without the anchors of the set
RECURSIVE WithoutAnchors(_, _, _)
WithoutAnchors(html, raises, i) ==
  IF i > Len(html) THEN <<>>
  ELSE (IF i \in raises THEN <<>> ELSE <<html[i]>>) \o WithoutAnchors(html, raises, i + 1)

\* C14: when computing the candidate of an anchor throws, only this candidate
\* is discarded: the message is not given up and its candidates are those of
\* the other anchors and of the text lines
C14_FaultDiscardsOnlyCandidate ==
  fpc = "done" =>
    /\ ~fout.aborted
    /\ fout.candidates =
         extractArticlesEnhanced(WithoutAnchors(fin.html, fin.raises, 1), fin.text)

(***************************************************************************)
(* Properties of the concurrent body handlers.                             *)
(***************************************************************************)
\* C15: whatever the interleaving of the handlers, the candidates the call of
\* a handler returns, and the handler resumes with, are those extractArticlesEnhanced gives for its message alone
C15_Reentrant ==
  \A m \in 1..MaxMessages :
    hpc[m] \in {"awaiting", "extracted"} =>
      results[m] = extractArticlesEnhanced(msgs[m].html, msgs[m].text)

\* the handler of the second message has its candidates while the handler of
\* the first, which ran first and found candidates too, waits at its await
C15_Witness ==
  /\ hpc[1] = "awaiting"
  /\ hpc[2] = "extracted"
  /\ Len(arrays[1]) > 0
  /\ Len(results[2]) > 0
  /\ msgs[1] # msgs[2]

(***************************************************************************)
(* Properties of processEmail: the collaborators.                          *)
(***************************************************************************)
\* the articles the loop has gone through are the first ones of the list, and
\* the saved ones are among them, in their order
SavedFromFinal(final) ==
  /\ cursor - 1 <= Len(final)
  /\ IsSubsequence(saved, 1, SubSeq(final, 1, cursor - 1), 1)

\* C16: scraping, embedding, saving and indexing are invoked only for a
\* message whose extraction has returned, on the articles of its final
\* deduplicated list in their order; none is invoked before the extraction
\* has returned, none for a stale or skipped message
C16_CollaboratorsAfterExtraction ==
  /\ (cursor > 1 \/ saved # <<>>) =>
       /\ extracted
       /\ ppc \in {"saving", "done"}
       /\ SavedFromFinal(deduplicateArticles(AllArticles(email.html, email.text)))
  /\ (~extracted \/ ppc \in {"in", "stale", "skipped"}) => cursor = 1 /\ saved = <<>>

\* a message of two articles: the first was saved, a service failed for the
\* second
C16_Witness ==
  /\ ppc = "done"
  /\ extracted
  /\ cursor = 3
  /\ Len(saved) = 1
  /\ saved[1] = candidates[1]

(***************************************************************************)
(* Properties of processEmail: the non-newsletter heuristic.               *)
(***************************************************************************)
\* the subject has one of the keywords confirm, welcome, verify, subscription
HasSubjectKeyword ==
  \E keyword \in {"confirm", "welcome", "verify", "subscription"} :
    Includes(ToLowerCase(email.subject), keyword)

HasShortBody == Len(email.text) < MinTextLen

\* C17: a fresh message is skipped as a non-newsletter exactly when it has a
\* short body together with a keyword in its subject; with one of the two
\* only it is processed
C17_SkippedWhenShortAndKeyword ==
  (ppc # "in" /\ ~IsStale(email.age, dayHours)) =>
    /\ (HasSubjectKeyword /\ HasShortBody) => ppc = "skipped" /\ ~extracted
    /\ ~(HasSubjectKeyword /\ HasShortBody) => ppc # "skipped" /\ extracted

(***************************************************************************)
(* Properties of similarity.                                               *)
(***************************************************************************)
\* the two titles without their case
Folded1 == ToLowerCase(tin.str1)

Folded2 == ToLowerCase(tin.str2)

\* the words the two case-folded titles share, and the sizes of their word
\* sets
SharedWords == Cardinality(WordSet(Folded1) \cap WordSet(Folded2))

LargerWordSet == Max(Cardinality(WordSet(Folded1)), Cardinality(WordSet(Folded2)))

UnionOfWords == Cardinality(WordSet(Folded1) \cup WordSet(Folded2))

\* the score is 1 for titles equal without their case, 0.9 when one contains
\* the other, and else the number of shared words divided by den
ScoreWithOverlap(den) ==
  IF Folded1 = Folded2 THEN tout = <<1, 1>>
  ELSE IF Includes(Folded1, Folded2) \/ Includes(Folded2, Folded1) THEN tout = <<9, 10>>
  ELSE tout[1] * den = SharedWords * tout[2]

\* C18 as stated: 1.0 for titles equal ignoring case, 0.9 when one contains
\* the other, otherwise the Jaccard overlap of the word sets: the shared
\* words divided by the words of the union
C18_JaccardOverlap == tpc = "done" => ScoreWithOverlap(UnionOfWords)

\* C18 amended: 1.0 for titles equal ignoring case, 0.9 when one contains
\* the other, otherwise the shared words divided by the size of the larger
\* of the two word sets
C18_OverlapOfLarger == tpc = "done" => ScoreWithOverlap(LargerWordSet)

\* two titles of six words that share five: 5/6 by the larger set, 5/7 by
\* the union
C18_Witness ==
  /\ tpc = "done"
  /\ tin.str1 = "Google Buys Small AI Chip Maker"
  /\ tin.str2 = "Google Buys Tiny AI Chip Maker"
  /\ tout = <<5, 6>>

(***************************************************************************)
(* Properties of createArticle.                                            *)
(***************************************************************************)
\* the data of the last call
LastData == submitted[Len(submitted)]

\* C19: a call of createArticle with a source_url that is stored already
\* returns the stored article without raising and leaves the table as it
\* was; the table has at most one article for a source_url
C19_ResubmitIgnored ==
  /\ \A k, j \in 1..Len(rows) : rows[k].source_url = rows[j].source_url => k = j
  /\ (Len(submitted) > 0 /\ RowsWithUrl(before, LastData.source_url) # {}) =>
       /\ created = Return(FirstRowWithUrl(before, LastData.source_url))
       /\ rows = before

(***************************************************************************)
(* Properties of POST /api/chat.                                           *)
(***************************************************************************)
\* OpenSearch is unavailable, its search fails, or it returns no hits
NoOpenSearchHits ==
  \/ ~chatReq.isConnected
  \/ chatReq.clientSearch.kind = "throw"
  \/ chatReq.clientSearch.val = <<>>

\* C20: for a request with a message, when OpenSearch is unavailable or
\* returns no hits the context is what the PostgreSQL text search returns;
\* when that search fails too, also at the second attempt of the route, the
\* context is empty; in each case the request completes with status 200 and
\* a response whose sources are the context
C20_PostgresFallback ==
  (chatPc = "done" /\ ~IsBlank(chatReq.message) /\ NoOpenSearchHits) =>
    /\ chatRes.status = 200
    /\ chatRes.response \in {"claude", "fallback"}
    /\ chatReq.dbFirst.kind = "return" => chatRes.sources = chatReq.dbFirst.val
    /\ (chatReq.dbFirst.kind = "throw" /\ chatReq.dbSecond.kind = "return") =>
         chatRes.sources = chatReq.dbSecond.val
    /\ (chatReq.dbFirst.kind = "throw" /\ chatReq.dbSecond.kind = "throw") =>
         chatRes.sources = <<>>
    /\ chatRes.articles_found = Len(chatRes.sources)

\* OpenSearch is not connected and both attempts of the PostgreSQL search
\* fail: the request completes with the empty context
C20_Witness ==
  /\ chatPc = "done"
  /\ ~IsBlank(chatReq.message)
  /\ ~chatReq.isConnected
  /\ chatReq.dbFirst.kind = "throw"
  /\ chatReq.dbSecond.kind = "throw"
  /\ chatRes.status = 200
  /\ chatRes.sources = <<>>

(***************************************************************************)
(* Properties of the article lifetime.                                     *)
(***************************************************************************)
\* what the database reads, the text search and the search of the index
\* used for the chat can return
Retrievable == UnexpiredRows(artTable, clock) \cup IndexHits(osIndex)

\* C21: no article whose expires_at has passed is returned by the reads of
\* the database or by the search used for the chat, and an article that
\* cleanupExpiredArticles removed is retrievable through no search path
C21_ExpiredNeverServed ==
  /\ \A a \in Retrievable : a.expires_at > clock
  /\ \A a \in Retrievable : a.id \notin purged

(***************************************************************************)
(* Properties of the HTML pass: sponsored blocks.                          *)
(***************************************************************************)
\* the articles of the list that lead to the destination of the anchor
ArticlesOfSite(list, site) ==
  {k \in 1..Len(list) : list[k].url = extractRealUrl(site.href).val}

\* C22: the HTML pass emits no candidate for an anchor whose enclosing block
\* (the closest td, p or div) has a sponsor marker and no read-time marker
C22_NoSponsoredBlock ==
  xpc = "done" =>
    \A i \in 1..Len(xin.html) :
      isSponsoredContent(Trim(xin.html[i].block)) =>
        ArticlesOfSite(xout.html, xin.html[i]) = {}

(***************************************************************************)
(* Properties of the text pass.                                            *)
(***************************************************************************)
\* the lines after the title line, as the summary loop joins them
JoinedAfterTitle(p) ==
  (IF p.url = "" THEN "" ELSE p.url \o " ")
    \o (IF p.summary = "" THEN "" ELSE p.summary \o " ")

\* a URL of the line window survives resolution
UrlSurvives(p) == p.url # "" /\ extractRealUrl(p.url).val # ""

\* the candidate is flagged as sponsored
FlaggedSponsored(p) == isSponsoredContent(p.title \o " " \o JoinedAfterTitle(p))

\* the text pass emits one candidate, for the title line, when emit holds
\* and none when it does not
EmitsExactlyWhen(p, emit) ==
  IF emit
    THEN /\ Len(xout.text) = 1
         /\ xout.text[1].title = p.title
         /\ xout.text[1].url = extractRealUrl(p.url).val
    ELSE xout.text = <<>>

C24_ReadTimeNeverSponsored ==
  (/\ xpc = "done"
   /\ xin.parts.marker = " (3 minute read)"
   /\ UrlSurvives(xin.parts)
   /\ Len(xin.parts.title) > 10) =>
    Len(xout.text) = 1

(***************************************************************************)
(* Properties of scrapeArticleContent.                                     *)
(***************************************************************************)
ScrapeStarted == scrapePc # "idle"

FetchesBounded ==
  /\ fetches <= firstRetries + 1
  /\ (~scrapeUrl.valid \/ scrapeUrl.problematic) => fetches = 0

SettledWell ==
  /\ scrapePc = "done" <=> scrapeRes # NoResult
  /\ scrapePc = "done" =>
       /\ ~scrapeRes.rejected
       /\ ~scrapeRes.success =>
            /\ scrapeRes.content = ""
            /\ scrapeRes.error # ""
            /\ fetches \in {0, firstRetries + 1}

\* C25: a call of scrapeArticleContent ends and its promise is never
\* rejected; it makes at most retries + 1 requests, none for an invalid URL
\* or a problematic domain; a failed call answers success = false with empty
\* content and an error message
C25_ScrapeEndsWithinRetries ==
  /\ [](ScrapeStarted => FetchesBounded /\ SettledWell)
  /\ ScrapeStarted ~> (scrapePc = "done")

\* the default of two retries used up: three requests, all failed
C25_Witness ==
  /\ scrapePc = "done"
  /\ firstRetries = 2
  /\ fetches = 3
  /\ scrapeRes.settled
  /\ ~scrapeRes.success

(***************************************************************************)
(* Properties of the loop that saves the articles of a message.            *)
(***************************************************************************)
\* the articles whose turn of the loop is over
TurnOver == 1..(artIdx - 1)

\* C26: an article whose scraping failed is still embedded and its save is
\* called without content, and the row that is saved has none; whatever
\* step fails for an article, the loop ends only after the turn of every
\* article of the message
C26_DegradesPerArticle ==
  (saveStep # "idle") =>
    /\ \A i \in TurnOver \cap scrapeFailed :
         /\ [article |-> i, content |-> ""] \in embedCalls
         /\ \A call \in createCalls : call.article = i => call.content = ""
         /\ \A row \in dbRows : row.article = i => row.content = ""
    /\ saveStep = "done" => artIdx = batchSize + 1
    /\ \A i \in TurnOver : \E call \in embedCalls : call.article = i

\* the first of two articles failed to be scraped and was saved without
\* content, the second was processed although a later step of the first
\* one threw
C26_Witness ==
  /\ saveStep = "done"
  /\ batchSize = 2
  /\ 1 \in scrapeFailed
  /\ [article |-> 1, content |-> ""] \in dbRows
  /\ 1 \notin indexedIds
  /\ 2 \in indexedIds

(***************************************************************************)
(* Properties of processEmails.                                            *)
(***************************************************************************)
HandlersRunning == {m \in 1..MaxFetched : bodyHandler[m] \in {"parsing", "processing"}}

\* C27: when the promise of processEmails is resolved, and when the IMAP
\* connection is ended, no message handler is still running: every fetched
\* message has been parsed and processed
C27_ResolvedAfterHandlers ==
  (resolved \/ imapEnded) =>
    /\ HandlersRunning = {}
    /\ \A m \in 1..fetchCount : bodyHandler[m] \in {"failed", "finished"}

(***************************************************************************)
(* Properties of the load of the embedding model.                          *)
(***************************************************************************)
\* C28: whatever the interleaving of the calls of generateEmbedding, at
\* most one load of the model is in progress, no caller goes past
\* initializePipeline while the load is in progress, the callers that wait
\* wait for the load in progress, and after a load that succeeded no load
\* starts again
C28_OneInitialization ==
  (loadStarts > 0) =>
    /\ activeLoads <= 1
    /\ \A c \in Callers : callerPc[c] = "go" => ~isLoading
    /\ \A c \in Callers : callerPc[c] = "waiting" => isLoading /\ activeLoads = 1
    /\ loadedAt # 0 => loadStarts = loadedAt /\ pipeline = "model"

\* two callers are waiting for the one load in progress
C28_Witness ==
  /\ \A c \in 1..2 : c \in DOMAIN callerPc /\ callerPc[c] = "waiting"
  /\ isLoading
  /\ loadStarts = 1

(***************************************************************************)
(* Properties of the candidates the deduplicator drops.                    *)
(***************************************************************************)
Dropped == (1..Len(articles)) \ kept

SameKey(i, j) == DedupKey(articles[i]) = DedupKey(articles[j])

\* a retained candidate before candidate i in the input with the key of i
\* or with a title similar to the title of i above 0.8
JustifiedByKept(i) ==
  \E j \in kept :
    /\ j < i
    /\ (SameKey(i, j) \/ Similar(articles[j].title, articles[i].title))

\* C29: for every candidate that deduplicateArticles drops, the output has a
\* candidate that precedes it in the input and has the same key or a title
\* similarity with it above 0.8
C29_DroppedJustifiedByKept ==
  dpc \in {"once", "twice"} => \A i \in Dropped : JustifiedByKept(i)

\* C29, amended: every dropped candidate has the key of a candidate before
\* it in the input, retained or not, or a title similar above 0.8 to the
\* title of a retained candidate before it
C29_DroppedHasEarlierCause ==
  dpc \in {"once", "twice"} =>
    \A i \in Dropped :
      \/ \E j \in 1..(i - 1) : SameKey(i, j)
      \/ \E j \in kept : j < i /\ Similar(articles[j].title, articles[i].title)

\* a candidate dropped for the key of a candidate that was dropped itself
C29_Witness ==
  /\ dpc = "once"
  /\ \E i \in Dropped :
       /\ ~JustifiedByKept(i)
       /\ \E j \in Dropped : j < i /\ SameKey(i, j)

(***************************************************************************)
(* Properties of the status of the scheduler.                              *)
(***************************************************************************)
\* C30: the answer of getStatus has scheduled_jobs_active true exactly when
\* the two cron jobs are running, and false whenever the environment it
\* reports is 'development'
C30_ActiveIffJobsRun ==
  statusOut.reported =>
    /\ statusOut.scheduled_jobs_active <=> (processingRuns /\ cleanupRuns)
    /\ statusOut.environment = "development" => ~statusOut.scheduled_jobs_active

====
